---- MODULE Spec2Model ----
(***************************************************************************)
(* Character-list synchronisation of the TF-tracker collection tracker.    *)
(*                                                                         *)
(* Two front ends write the same tables:                                   *)
(*   - the Django site   (django_site/tracker/views.py)                    *)
(*   - the FastAPI app   (app/main.py, app/utils.py)                       *)
(* Both parse the free-text "characters" form field and replace the        *)
(* item's rows of the itemcharacter table.                                 *)
(*                                                                         *)
(* A Python str is a sequence of one-character strings, so that strip,     *)
(* split, replace and lower are computed as Python computes them.         *)
(* The form fields other than "characters" (company, line, series, ...)    *)
(* do not touch the character or itemcharacter tables and are not part of  *)
(* the state.                                                              *)
(***************************************************************************)
EXTENDS Integers, Sequences, FiniteSets, TLC

VARIABLES
    item,           \* the item table: the set of primary keys
    character,      \* the character table: character[id] is the name of row id
    itemcharacter,  \* the itemcharacter table: a set of rows
    last,           \* the request handled last: which view, item, field value, outcome
    txn,            \* the Django request inside transaction.atomic(), step by step
    sess,           \* the FastAPI requests in flight, one ORM session each
    call            \* a helper called outside any request: arguments and result

vars == <<item, character, itemcharacter, last, txn, sess, call>>

(***************************************************************************)
(* Python strings                                                          *)
(***************************************************************************)

\* Python's None, told apart from every str
None == <<"None">>

\* SQL NULL in the role column
NULL == "NULL"

\* what str.strip() removes
Whitespace == {" ", "\t", "\n"}

UPPERCASE == <<"A","B","C","D","E","F","G","H","I","J","K","L","M",
               "N","O","P","Q","R","S","T","U","V","W","X","Y","Z">>

LOWERCASE == <<"a","b","c","d","e","f","g","h","i","j","k","l","m",
               "n","o","p","q","r","s","t","u","v","w","x","y","z">>

\* the literal "primary" of the marker test
PRIMARY == <<"p","r","i","m","a","r","y">>

Range(f) == {f[i] : i \in DOMAIN f}

\* `if not value`: None and "" are falsy
Falsy(value) == value = None \/ value = <<>>

RECURSIVE lstrip(_)
lstrip(s) ==
    IF s # <<>> /\ Head(s) \in Whitespace THEN lstrip(Tail(s)) ELSE s

RECURSIVE rstrip(_)
rstrip(s) ==
    IF s # <<>> /\ s[Len(s)] \in Whitespace
    THEN rstrip(SubSeq(s, 1, Len(s) - 1))
    ELSE s

\* str.strip()
strip(s) == rstrip(lstrip(s))

\* str.replace(old, new) for one-character old and new
replace(s, old, new) ==
    [i \in 1..Len(s) |-> IF s[i] = old THEN new ELSE s[i]]

\* str.split(sep), read left to right: done holds the finished pieces, piece
\* the one being read
RECURSIVE split_from(_, _, _, _, _)
split_from(s, sep, i, done, piece) ==
    IF i > Len(s) THEN Append(done, piece)
    ELSE IF s[i] = sep
    THEN split_from(s, sep, i + 1, Append(done, piece), <<>>)
    ELSE split_from(s, sep, i + 1, done, Append(piece, s[i]))

\* str.split(sep): the pieces between the occurrences of sep, at least one
split(s, sep) == split_from(s, sep, 1, <<>>, <<>>)

\* str.splitlines(): no piece for the empty string, none after a final break
splitlines(s) ==
    IF s = <<>> THEN <<>>
    ELSE LET p == split(s, "\n")
         IN  IF p[Len(p)] = <<>> THEN SubSeq(p, 1, Len(p) - 1) ELSE p

\* sep.join(parts)
RECURSIVE join(_, _)
join(sep, parts) ==
    IF parts = <<>> THEN <<>>
    ELSE IF Len(parts) = 1 THEN parts[1]
    ELSE parts[1] \o sep \o join(sep, Tail(parts))

lower_char(c) ==
    IF \E i \in 1..26 : UPPERCASE[i] = c
    THEN LOWERCASE[CHOOSE i \in 1..26 : UPPERCASE[i] = c]
    ELSE c

\* str.lower()
lower(s) == [i \in 1..Len(s) |-> lower_char(s[i])]

\* `"|" in token`
contains(s, c) == \E i \in 1..Len(s) : s[i] = c

\* [part.strip() for part in token.split("|")]
stripped_parts(token) ==
    LET raw == split(token, "|")
    IN  [i \in 1..Len(raw) |-> strip(raw[i])]

\* [part for part in parts if part]
RECURSIVE non_empty(_)
non_empty(parts) ==
    IF parts = <<>> THEN <<>>
    ELSE IF Head(parts) = <<>> THEN non_empty(Tail(parts))
    ELSE <<Head(parts)>> \o non_empty(Tail(parts))

(***************************************************************************)
(* The parser: app/utils.py split_characters and its copy in the Django    *)
(* views, _split_characters                                                *)
(***************************************************************************)

\* a parser without the `else: token = head` branch: a token whose
\* modifiers are all empty keeps its '|'
normalize_token_keep_bar(raw) ==
    LET token == strip(raw) IN
    IF token = <<>> THEN <<>>
    ELSE IF contains(token, "|")
    THEN LET parts == stripped_parts(token)
             head  == parts[1]
             tail  == non_empty(Tail(parts))
         IN  IF tail # <<>>
             THEN <<head \o <<" ", "|">> \o join(<<" ", "|">>, tail)>>
             ELSE <<token>>
    ELSE <<token>>

\* a parser that folds the modifiers to lower case
normalize_token_lower(raw) ==
    LET token == strip(raw) IN
    IF token = <<>> THEN <<>>
    ELSE IF contains(token, "|")
    THEN LET parts == stripped_parts(token)
             head  == parts[1]
             tail  == non_empty(Tail(parts))
         IN  IF tail # <<>>
             THEN <<head \o <<" ", "|">>
                    \o join(<<" ", "|">>, [i \in DOMAIN tail |-> lower(tail[i])])>>
             ELSE <<head>>
    ELSE <<token>>

\* the body of the loop over the raw tokens: the entries one token adds
normalize_token(raw) ==
    LET token == strip(raw) IN
    IF token = <<>> THEN <<>>
    ELSE IF contains(token, "|")
    THEN LET parts == stripped_parts(token)
             head  == parts[1]
             tail  == non_empty(Tail(parts))
         IN  IF tail # <<>>
             THEN <<head \o <<" ", "|">> \o join(<<" ", "|">>, tail)>>
             ELSE <<head>>
    ELSE <<token>>

RECURSIVE normalize_tokens(_)
normalize_tokens(tokens) ==
    IF tokens = <<>> THEN <<>>
    ELSE normalize_token(Head(tokens)) \o normalize_tokens(Tail(tokens))

\* a parser that forgets the ';': only ',' and line breaks separate tokens
split_characters_no_semicolon(value) ==
    IF Falsy(value) THEN <<>>
    ELSE normalize_tokens(splitlines(replace(value, ",", "\n")))

split_characters(value) ==
    IF Falsy(value) THEN <<>>
    ELSE normalize_tokens(
             splitlines(replace(replace(value, ";", "\n"), ",", "\n")))

\* the Django copy of the parser
django_split_characters(value) ==
    IF Falsy(value) THEN <<>>
    ELSE normalize_tokens(
             splitlines(replace(replace(value, ";", "\n"), ",", "\n")))

(***************************************************************************)
(* The values of the "characters" form field the requests submit           *)
(***************************************************************************)

Jazz == <<"J","a","z","z">>
Prowl == <<"P","r","o","w","l">>
Arcee == <<"A","r","c","e","e">>

\* "Jazz, Prowl"
JazzProwl == Jazz \o <<",", " ">> \o Prowl

\* "Jazz |primary"
JazzMarked == Jazz \o <<" ","|","p","r","i","m","a","r","y">>

\* "Jazz, Prowl |primary"
ProwlMarked == Jazz \o <<",", " ">> \o Prowl \o <<" ","|","p","r","i","m","a","r","y">>

\* "Arcee | primary, Jazz | Primary ; Prowl |   PRIMARY"
ThreeMarked ==
    Arcee \o <<" ","|"," ","p","r","i","m","a","r","y",","," ">>
    \o Jazz \o <<" ","|"," ","P","r","i","m","a","r","y"," ",";"," ">>
    \o Prowl \o <<" ","|"," "," "," ","P","R","I","M","A","R","Y">>

\* "Jazz, Jazz"
JazzTwice == Jazz \o <<",", " ">> \o Jazz

\* "Jazz |primary, Jazz"
JazzMarkedTwice == JazzMarked \o <<",", " ">> \o Jazz

\* "Arcee, Prowl, Prowl"
ArceeProwlTwice == Arcee \o <<",", " ">> \o Prowl \o <<",", " ">> \o Prowl

\* "|, Jazz"
LoneBar == <<"|", ",", " ">> \o Jazz

\* "|Prowl, Jazz"
Nameless == <<"|">> \o Prowl \o <<",", " ">> \o Jazz

\* "   "
Blank == <<" ", " ", " ">>

Inputs ==
    {None, <<>>, Blank, Jazz, JazzProwl, JazzMarked, ProwlMarked,
     ThreeMarked, JazzTwice, JazzMarkedTwice, ArceeProwlTwice,
     LoneBar, Nameless}

\* the values _save_item_from_form hands to _sync_characters
DjangoValues == Inputs \cup {None} \cup {strip(v) : v \in Inputs \ {None}}

\* the entries of every submitted value, parsed once
fastapi_entries == [v \in Inputs |-> split_characters(v)]

django_entries == [v \in DjangoValues |-> django_split_characters(v)]

\* every entry the parsers give, and its '|'-separated parts, split once
Entries ==
    UNION ({Range(fastapi_entries[v]) : v \in Inputs}
           \cup {Range(django_entries[v]) : v \in DjangoValues})

entry_parts == [e \in Entries |-> stripped_parts(e)]

\* split_characters(value) and _split_characters(value), looked up where they
\* were computed before; the parts of an entry
entries_of(value) ==
    IF value \in DOMAIN fastapi_entries THEN fastapi_entries[value]
    ELSE split_characters(value)

django_entries_of(value) ==
    IF value \in DOMAIN django_entries THEN django_entries[value]
    ELSE django_split_characters(value)

parts_of(e) == stripped_parts(e)

(***************************************************************************)
(* The tables                                                              *)
(***************************************************************************)

\* a database: the character table and the itemcharacter table
Database(chars, links) == [character |-> chars, itemcharacter |-> links]

\* SELECT ... FROM character WHERE name = %s: the row exists
has_character(chars, name) == \E i \in 1..Len(chars) : chars[i] = name

\* the primary key of the row with that name
character_id(chars, name) == CHOOSE i \in 1..Len(chars) : chars[i] = name

\* the rows of one item
links_of(links, pk) == {l \in links : l.item_id = pk}

\* an itemcharacter row; the sync never writes a role
Link(pk, ch, is_primary) ==
    [item_id |-> pk, character_id |-> ch, is_primary |-> is_primary, role |-> NULL]

\* the composite primary key (item_id, character_id) of app/models.py
same_key(a, b) == a.item_id = b.item_id /\ a.character_id = b.character_id

\* any(part.lower() == "primary" for part in parts[1:])
any_primary(parts) == \E i \in 2..Len(parts) : lower(parts[i]) = PRIMARY

(***************************************************************************)
(* Django: tracker/views.py                                                *)
(***************************************************************************)

\* _as_optional_str: None, or the stripped text unless it is empty
as_optional_str(value) ==
    IF value = None THEN None
    ELSE IF strip(value) = <<>> THEN None ELSE strip(value)

\* Character.objects.get_or_create(name=name): the table afterwards
objects_get_or_create(chars, name) ==
    IF has_character(chars, name) THEN chars ELSE Append(chars, name)

\* a sync that tidies up: when the newest Character row is linked by this
\* item alone, it is deleted together with the item's links
django_delete_orphan(db, pk) ==
    LET n      == Len(db.character)
        orphan == /\ n > 0
                  /\ \E l \in links_of(db.itemcharacter, pk) : l.character_id = n
                  /\ \A l \in db.itemcharacter : l.character_id = n => l.item_id = pk
    IN  [character           |-> IF orphan THEN SubSeq(db.character, 1, n - 1)
                                 ELSE db.character,
         itemcharacter       |-> db.itemcharacter \ links_of(db.itemcharacter, pk),
         primary_found       |-> FALSE,
         first_character_id  |-> 0,
         seen_character_ids  |-> {}]

\* a sync that diffs against the old links: it takes the characters the item
\* already links as seen, and so skips them
django_delete_seen_old(db, pk) ==
    [character           |-> db.character,
     itemcharacter       |-> db.itemcharacter \ links_of(db.itemcharacter, pk),
     primary_found       |-> FALSE,
     first_character_id  |-> 0,
     seen_character_ids  |-> {l.character_id : l \in links_of(db.itemcharacter, pk)}]

\* the locals of _sync_characters before the loop, and the DELETE statement
django_delete(db, pk) ==
    [character           |-> db.character,
     itemcharacter       |-> db.itemcharacter \ links_of(db.itemcharacter, pk),
     primary_found       |-> FALSE,
     first_character_id  |-> 0,
     seen_character_ids  |-> {}]

\* parts = [part.strip() for part in entry.split("|") if part.strip()]
django_parts(entry) == non_empty(parts_of(entry))

\* what the loop reads from an entry: `continue` when it has no part, else
\* the name and the marker
django_read(entry) ==
    LET parts == django_parts(entry) IN
    IF parts = <<>>
    THEN [skipped |-> TRUE, name |-> <<>>, is_primary |-> FALSE]
    ELSE [skipped |-> FALSE, name |-> parts[1],
          is_primary |-> any_primary(parts)]

\* one pass of `for entry in entries`
django_entry(st, pk, entry) ==
    LET read == django_read(entry) IN
    IF read.skipped THEN st
    ELSE
    LET name       == read.name
        is_primary == read.is_primary
        chars      == objects_get_or_create(st.character, name)
        ch         == character_id(chars, name)
    IN  IF ch \in st.seen_character_ids
        THEN [st EXCEPT !.character = chars]
        ELSE [character          |-> chars,
              itemcharacter      |-> st.itemcharacter \cup {Link(pk, ch, is_primary)},
              primary_found      |-> st.primary_found \/ is_primary,
              first_character_id |-> IF st.first_character_id = 0
                                     THEN ch ELSE st.first_character_id,
              seen_character_ids |-> st.seen_character_ids \cup {ch}]

\* an UPDATE that leaves out `item_id = %s`: the character is made primary
\* on every item that links it
django_promote_every_item(st, pk, entries) ==
    IF entries # <<>> /\ ~st.primary_found /\ st.first_character_id # 0
    THEN [st EXCEPT !.itemcharacter =
             {IF l.character_id = st.first_character_id
              THEN [l EXCEPT !.is_primary = TRUE] ELSE l : l \in @}]
    ELSE st

\* the UPDATE after the loop
django_promote(st, pk, entries) ==
    IF entries # <<>> /\ ~st.primary_found /\ st.first_character_id # 0
    THEN [st EXCEPT !.itemcharacter =
             {IF l.item_id = pk /\ l.character_id = st.first_character_id
              THEN [l EXCEPT !.is_primary = TRUE] ELSE l : l \in @}]
    ELSE st

RECURSIVE django_loop(_, _, _, _)
django_loop(st, pk, entries, i) ==
    IF i > Len(entries) THEN st
    ELSE django_loop(django_entry(st, pk, entries[i]), pk, entries, i + 1)

\* _sync_characters(item, characters_raw): the database afterwards
django_sync_characters(db, pk, characters_raw) ==
    LET entries == django_entries_of(characters_raw)
        st      == django_promote(
                       django_loop(django_delete(db, pk), pk, entries, 1),
                       pk, entries)
    IN  Database(st.character, st.itemcharacter)

\* _save_item_from_form: item.save(), then the sync, in one atomic block
save_item_from_form(db, pk, characters) ==
    django_sync_characters(db, pk, as_optional_str(characters))

(***************************************************************************)
(* FastAPI: app/main.py and app/utils.py                                   *)
(*                                                                         *)
(* A request works through one SQLAlchemy session.  session.add and        *)
(* session.delete only mark objects; every query first flushes the marked  *)
(* objects to the database (autoflush), and session.commit() flushes and   *)
(* makes everything flushed so far durable.  A request that raises leaves  *)
(* get_session's `with` block, which rolls back what was not committed.    *)
(* A session is run from one commit to the next in one step.               *)
(***************************************************************************)

\* the session of a request that is not running.  before (the database when
\* the request began), overlap (another request ran on the same item
\* meanwhile) and n (the request was the n-th to end) are kept for the record
\* only: the code reads none of them
NoSession ==
    [pc |-> "idle", view |-> "none", item_id |-> 0, characters |-> None,
     entries |-> <<>>, idx |-> 0, primary_set |-> FALSE, new |-> {},
     deleted |-> {}, before |-> Database(<<>>, {}), overlap |-> FALSE,
     n |-> 0]

\* the INSERTs of a flush meet the primary key (item_id, character_id)
flush_conflict(db, s) ==
    \E n \in s.new : \E l \in db.itemcharacter \ s.deleted : same_key(n, l)

\* autoflush: the DELETEs and INSERTs of the marked objects
flush(db, s) ==
    Database(db.character, (db.itemcharacter \ s.deleted) \cup s.new)

\* get_or_create(session, Character, name) on a flushed session:
\* obj = 0 stands for None; committed tells whether session.commit() ran
get_or_create(chars, name) ==
    IF Falsy(name) \/ strip(name) = <<>>
    THEN [obj |-> 0, character |-> chars, committed |-> FALSE]
    ELSE IF has_character(chars, strip(name))
    THEN [obj |-> character_id(chars, strip(name)), character |-> chars,
          committed |-> FALSE]
    ELSE [obj |-> Len(chars) + 1, character |-> Append(chars, strip(name)),
          committed |-> TRUE]

\* the name and the marker the loop of _sync_characters reads from an entry
fastapi_name(e) == IF contains(e, "|") THEN parts_of(e)[1] ELSE e

fastapi_is_primary(e) == contains(e, "|") /\ any_primary(parts_of(e))

\* what the loop of the FastAPI _sync_characters reads from an entry
fastapi_read(e) ==
    [skipped |-> FALSE, name |-> fastapi_name(e),
     is_primary |-> fastapi_is_primary(e)]

\* the request raised: the session is closed, what it had not committed is lost
raised(committed, s) ==
    [db |-> committed,
     s  |-> [s EXCEPT !.pc = "failed", !.new = {}, !.deleted = {}]]

\* after the loop: the promotion of the first entry, then the handler's
\* session.commit()
fastapi_finish(committed, db, s) ==
    LET promote == s.entries # <<>> /\ ~s.primary_set
        first   == strip(split(s.entries[1], "|")[1])
    IN
    IF flush_conflict(db, s) THEN raised(committed, s)
    ELSE
    LET flushed == flush(db, s)
        ch      == IF promote /\ has_character(flushed.character, first)
                   THEN character_id(flushed.character, first) ELSE 0
        links   == {IF promote /\ l.item_id = s.item_id /\ l.character_id = ch
                    THEN [l EXCEPT !.is_primary = TRUE] ELSE l
                    : l \in flushed.itemcharacter}
    IN  [db |-> Database(flushed.character, links),
         s  |-> [s EXCEPT !.pc = "done", !.new = {}, !.deleted = {}]]

\* `for idx, e in enumerate(entries)` from entry s.idx up to the next commit:
\* committed is the database as last committed, db the session's view of it
RECURSIVE fastapi_loop(_, _, _)
fastapi_loop(committed, db, s) ==
    IF s.idx > Len(s.entries) THEN fastapi_finish(committed, db, s)
    ELSE
    LET e          == s.entries[s.idx]
        name       == fastapi_name(e)
        is_primary == fastapi_is_primary(e)
    IN
    IF Falsy(name) \/ strip(name) = <<>>
    THEN raised(committed, s)                 \* ch is None: ch.id raises
    ELSE IF flush_conflict(db, s)
    THEN raised(committed, s)                 \* IntegrityError in the autoflush
    ELSE
    LET flushed == flush(db, s)
        got     == get_or_create(flushed.character, name)
        next    == [s EXCEPT !.idx = @ + 1,
                             !.primary_set = @ \/ is_primary,
                             !.deleted = {},
                             !.new = {Link(s.item_id, got.obj, is_primary)}]
        view    == Database(got.character, flushed.itemcharacter)
    IN  IF got.committed
        THEN [db |-> view, s |-> next]
        ELSE fastapi_loop(committed, view, next)

\* a sync that tests `if not characters_csv: return` before the loop over
\* item.character_links: an empty field leaves the old links in place
fastapi_begin_return_first(db, pk, characters_csv) ==
    [NoSession EXCEPT !.pc = "loop", !.item_id = pk,
                      !.characters = characters_csv,
                      !.entries = IF Falsy(characters_csv) THEN <<>>
                                  ELSE entries_of(characters_csv),
                      !.idx = 1,
                      !.deleted = IF Falsy(characters_csv) THEN {}
                                  ELSE links_of(db.itemcharacter, pk),
                      !.before = db]

\* _sync_characters up to its first commit: the session of a request that
\* has loaded item.character_links and marked every link deleted
fastapi_begin(db, pk, characters_csv) ==
    [NoSession EXCEPT !.pc = "loop", !.item_id = pk,
                      !.characters = characters_csv,
                      !.entries = IF Falsy(characters_csv) THEN <<>>
                                  ELSE entries_of(characters_csv),
                      !.idx = 1,
                      !.deleted = links_of(db.itemcharacter, pk),
                      !.before = db]

\* one step of a running session: to its next commit, its end or its failure
fastapi_step(db, s) ==
    IF Falsy(s.characters)
    THEN [db |-> flush(db, s),                \* `return`, then session.commit()
          s  |-> [s EXCEPT !.pc = "done", !.deleted = {}]]
    ELSE fastapi_loop(db, db, s)

\* a session run to its end with nothing else running
RECURSIVE fastapi_run(_, _)
fastapi_run(db, s) ==
    IF s.pc \in {"done", "failed"} THEN [db |-> db, s |-> s]
    ELSE LET r == fastapi_step(db, s) IN fastapi_run(r.db, r.s)

\* _sync_characters and the session.commit() after it, as create_item and
\* update_item run them
fastapi_sync_characters(db, pk, characters_csv) ==
    fastapi_run(db, fastapi_begin(db, pk, characters_csv))

(***************************************************************************)
(* What a page shows of an item                                            *)
(***************************************************************************)

\* Item.character_rows: the (name, is_primary) of the item's links in db
pairs_in(db, pk) ==
    {<<db.character[l.character_id], l.is_primary>> :
        l \in links_of(db.itemcharacter, pk)}

Committed == Database(character, itemcharacter)

\* the links of an item as committed
LinkedPairs(pk) == pairs_in(Committed, pk)

LinkedNames(pk) == {p[1] : p \in LinkedPairs(pk)}

\* the names of the links with is_primary = 1
PrimaryNames(pk) == {p[1] : p \in {q \in LinkedPairs(pk) : q[2]}}

(***************************************************************************)
(* The requests, each handled from start to end                            *)
(***************************************************************************)

\* the requests handled in one behaviour
MaxRequests == 3

\* the ORM sessions (worker threads) of the FastAPI app
NumSessions == 2

Sessions == 1..NumSessions

\* the primary key an INSERT into item is given
new_pk == Cardinality(item) + 1

\* the application a view belongs to
framework(view) ==
    IF view \in {"item_create", "item_edit"} THEN "django" ELSE "fastapi"

\* the record of a request that ended: ok (it returned, it did not raise),
\* failed (some request so far raised), again (the request before it was the
\* same one: same application, item and field value), created (character
\* rows added since it began), had (the links its item had when it began)
Finished(view, pk, characters, ok, before, after) ==
    [n          |-> last.n + 1,
     view       |-> view,
     item_id    |-> pk,
     characters |-> characters,
     ok         |-> ok,
     failed     |-> last.failed \/ ~ok,
     again      |-> /\ last.n > 0
                    /\ framework(last.view) = framework(view)
                    /\ last.item_id = pk
                    /\ last.characters = characters,
     created    |-> Len(after.character) - Len(before.character),
     had        |-> Cardinality(links_of(before.itemcharacter, pk))]

\* Django item_create and item_edit: _save_item_from_form commits its block
django_save(view, pk, characters) ==
    /\ last.n < MaxRequests
    /\ \E db \in {save_item_from_form(Committed, pk, characters)} :
        /\ item' = item \cup {pk}
        /\ character' = db.character
        /\ itemcharacter' = db.itemcharacter
        /\ last' = Finished(view, pk, characters, TRUE, Committed, db)
    /\ UNCHANGED <<txn, sess, call>>

item_create(characters) == django_save("item_create", new_pk, characters)

item_edit(pk, characters) == django_save("item_edit", pk, characters)

\* FastAPI create_item and update_item: the item is committed, then
\* _sync_characters and session.commit() run
fastapi_save(view, pk, characters) ==
    /\ last.n < MaxRequests
    /\ \E r \in {fastapi_sync_characters(Committed, pk, characters)} :
        /\ item' = item \cup {pk}
        /\ character' = r.db.character
        /\ itemcharacter' = r.db.itemcharacter
        /\ last' = Finished(view, pk, characters, r.s.pc = "done",
                            Committed, r.db)
    /\ UNCHANGED <<txn, sess, call>>

create_item(characters) == fastapi_save("create_item", new_pk, characters)

update_item(pk, characters) == fastapi_save("update_item", pk, characters)

\* no Django request is inside its atomic block
NoTxn ==
    [pc |-> "idle", view |-> "none", item_id |-> 0, characters |-> None,
     entries |-> <<>>, i |-> 0, st |-> django_delete(Database(<<>>, {}), 0),
     before |-> Database(<<>>, {})]

\* empty tables, no request handled or in flight
NoRequests ==
    /\ item = {}
    /\ character = <<>>
    /\ itemcharacter = {}
    /\ last = [n |-> 0, view |-> "none", item_id |-> 0, characters |-> None,
               ok |-> TRUE, failed |-> FALSE, again |-> FALSE, created |-> 0,
               had |-> 0]
    /\ txn = NoTxn
    /\ sess = [p \in Sessions |-> NoSession]

\* no helper is called
NoCall == [fn |-> "none"]

Init == NoRequests /\ call = NoCall

Next ==
    \/ \E c \in Inputs : item_create(c)
    \/ \E pk \in item, c \in Inputs : item_edit(pk, c)
    \/ \E c \in Inputs : create_item(c)
    \/ \E pk \in item, c \in Inputs : update_item(pk, c)

Spec == Init /\ [][Next]_vars

(***************************************************************************)
(* A Django request, statement by statement                                *)
(*                                                                         *)
(* _save_item_from_form runs item.save() and _sync_characters inside       *)
(* `with transaction.atomic()`.  txn.st is the database as the block's     *)
(* connection sees it; the tables hold what is committed.  Every statement *)
(* of the block can raise a database error, which leaves the block.        *)
(***************************************************************************)

\* the Django requests of one behaviour
MaxTxns == 2

\* a save without the atomic block: every statement is committed as it runs
autocommit(committed, work) == work

\* what is committed while the block is open: none of its writes
inside_atomic(committed, work) == committed

Work == Database(txn.st.character, txn.st.itemcharacter)

\* the block is entered: item.save(), the field is parsed, the old links are
\* deleted
atomic_enter(view, pk, characters) ==
    /\ txn.pc \in {"idle", "raised"}
    /\ last.n < MaxTxns
    /\ \E st \in {django_delete(Committed, pk)} :
        /\ txn' = [pc |-> "loop", view |-> view, item_id |-> pk,
                   characters |-> characters,
                   entries |-> django_entries[as_optional_str(characters)],
                   i |-> 1, st |-> st, before |-> Committed]
        /\ \E db \in {inside_atomic(Committed,
                                    Database(st.character, st.itemcharacter))} :
            /\ character' = db.character
            /\ itemcharacter' = db.itemcharacter
    /\ UNCHANGED <<item, last, sess, call>>

item_create_enter(characters) ==
    atomic_enter("item_create", new_pk, characters)

item_edit_enter(pk, characters) == atomic_enter("item_edit", pk, characters)

\* one pass of the loop over the entries
sync_entry ==
    /\ txn.pc = "loop"
    /\ txn.i <= Len(txn.entries)
    /\ \E st \in {django_entry(txn.st, txn.item_id, txn.entries[txn.i])} :
        /\ txn' = [txn EXCEPT !.st = st, !.i = @ + 1]
        /\ \E db \in {inside_atomic(Committed,
                                    Database(st.character, st.itemcharacter))} :
            /\ character' = db.character
            /\ itemcharacter' = db.itemcharacter
    /\ UNCHANGED <<item, last, sess, call>>

\* the loop has ended: the UPDATE that promotes the first character
sync_promote ==
    /\ txn.pc = "loop"
    /\ txn.i > Len(txn.entries)
    /\ \E st \in {django_promote(txn.st, txn.item_id, txn.entries)} :
        /\ txn' = [txn EXCEPT !.st = st, !.pc = "exit"]
        /\ \E db \in {inside_atomic(Committed,
                                    Database(st.character, st.itemcharacter))} :
            /\ character' = db.character
            /\ itemcharacter' = db.itemcharacter
    /\ UNCHANGED <<item, last, sess, call>>

\* the block is left normally: COMMIT
atomic_exit ==
    /\ txn.pc = "exit"
    /\ item' = item \cup {txn.item_id}
    /\ character' = txn.st.character
    /\ itemcharacter' = txn.st.itemcharacter
    /\ last' = Finished(txn.view, txn.item_id, txn.characters, TRUE,
                        txn.before, Work)
    /\ txn' = NoTxn
    /\ UNCHANGED <<sess, call>>

\* a statement of the block raised: ROLLBACK, the exception leaves the view
atomic_raise ==
    /\ txn.pc \in {"loop", "exit"}
    /\ txn' = [txn EXCEPT !.pc = "raised"]
    /\ last' = Finished(txn.view, txn.item_id, txn.characters, FALSE,
                        txn.before, Committed)
    /\ UNCHANGED <<item, character, itemcharacter, sess, call>>

NextAtomic ==
    \/ \E c \in Inputs : item_create_enter(c)
    \/ \E pk \in item, c \in Inputs : item_edit_enter(pk, c)
    \/ sync_entry
    \/ sync_promote
    \/ atomic_exit
    \/ atomic_raise

SpecAtomic == Init /\ [][NextAtomic]_vars

(***************************************************************************)
(* FastAPI requests in flight, each in its own session                     *)
(*                                                                         *)
(* A step runs one session from a commit to its next commit; the requests  *)
(* of the other sessions run in between.                                   *)
(***************************************************************************)

\* the FastAPI requests of one behaviour
MaxSyncs == 3

\* the field values the concurrent requests submit
SessionInputs == {None, Jazz, JazzProwl, JazzMarked, ThreeMarked, JazzTwice}

Running(p) == sess[p].pc = "loop"

\* the other requests now syncing the same item
rivals(p, pk) == {q \in Sessions \ {p} : Running(q) /\ sess[q].item_id = pk}

\* the handler up to the loop of _sync_characters over item.character_links:
\* the item is committed, its links are loaded and marked deleted
request(p, view, pk, characters) ==
    /\ ~Running(p)
    /\ last.n + Cardinality({q \in Sessions : Running(q)}) < MaxSyncs
    /\ item' = item \cup {pk}
    /\ sess' = [q \in Sessions |->
                   IF q = p
                   THEN [fastapi_begin(Committed, pk, characters)
                             EXCEPT !.view = view,
                                    !.overlap = rivals(p, pk) # {}]
                   ELSE IF q \in rivals(p, pk)
                   THEN [sess[q] EXCEPT !.overlap = TRUE]
                   ELSE sess[q]]
    /\ UNCHANGED <<character, itemcharacter, last, txn, call>>

create_item_request(p, characters) ==
    request(p, "create_item", new_pk, characters)

update_item_request(p, pk, characters) ==
    request(p, "update_item", pk, characters)

\* the session runs to its next commit, to the handler's last commit or to
\* the exception that ends the request
resume(p) ==
    /\ Running(p)
    /\ \E r \in {fastapi_step(Committed, sess[p])} :
        /\ character' = r.db.character
        /\ itemcharacter' = r.db.itemcharacter
        /\ IF r.s.pc = "loop"
           THEN /\ sess' = [sess EXCEPT ![p] = r.s]
                /\ last' = last
           ELSE /\ sess' = [sess EXCEPT ![p] = [r.s EXCEPT !.n = last.n + 1]]
                /\ last' = Finished(r.s.view, r.s.item_id, r.s.characters,
                                    r.s.pc = "done", r.s.before, r.db)
    /\ UNCHANGED <<item, txn, call>>

NextSessions ==
    \/ \E p \in Sessions, c \in SessionInputs : create_item_request(p, c)
    \/ \E p \in Sessions, pk \in item, c \in SessionInputs :
           update_item_request(p, pk, c)
    \/ \E p \in Sessions : resume(p)

SpecSessions == Init /\ [][NextSessions]_vars

(***************************************************************************)
(* The contract of the sync, stated on the submitted field value           *)
(***************************************************************************)

\* the entries of a field value
EntriesOf(c) == fastapi_entries[c]

\* the name part of an entry: the text before its first '|', trimmed
NamePart(e) == entry_parts[e][1]

\* an entry is marked when a modifier is "primary" in any letter case
Marked(e) == any_primary(entry_parts[e])

MarkedEntries(c) == {i \in DOMAIN EntriesOf(c) : Marked(EntriesOf(c)[i])}

\* the entries that name a character
Named(c) == {i \in DOMAIN EntriesOf(c) : NamePart(EntriesOf(c)[i]) # <<>>}

NamesOf(c) == {NamePart(EntriesOf(c)[i]) : i \in Named(c)}

First(S) == CHOOSE i \in S : \A j \in S : i <= j

\* a name occurs in two entries
Repeats(c) ==
    \E i, j \in Named(c) :
        i # j /\ NamePart(EntriesOf(c)[i]) = NamePart(EntriesOf(c)[j])

\* the field is absent, empty or all whitespace
EmptyField(c) == c = None \/ strip(c) = <<>>

PrimaryLinks(pk) == {l \in links_of(itemcharacter, pk) : l.is_primary}

\* C1: after any sequence of syncs that all completed, every item has at
\* most one link with is_primary = true
C1_AtMostOnePrimary ==
    ~last.failed => \A pk \in item : Cardinality(PrimaryLinks(pk)) <= 1

\* C2: when entries of the field are marked primary, after the completed sync
\* the primary links of the item are exactly the link of the first marked
\* entry; the later marked entries are linked with is_primary = false
C2_FirstMarkedWins ==
    (last.n > 0 /\ last.ok /\ MarkedEntries(last.characters) # {}) =>
        PrimaryNames(last.item_id) =
            {NamePart(EntriesOf(last.characters)[
                          First(MarkedEntries(last.characters))])}

\* C3: when the field has entries and none is marked, after the completed
\* sync the link of the first entry that names a character is primary and
\* every other link of the item is not
C3_FirstEntryPromoted ==
    (/\ last.n > 0
     /\ last.ok
     /\ MarkedEntries(last.characters) = {}
     /\ Named(last.characters) # {}) =>
        PrimaryNames(last.item_id) =
            {NamePart(EntriesOf(last.characters)[First(Named(last.characters))])}

\* C4: when a name occurs more than once in the field, the sync completes
\* and the item has exactly one link for each name of the field
C4_DuplicatesCollapse ==
    (last.n > 0 /\ Repeats(last.characters)) =>
        /\ last.ok
        /\ \A name \in NamesOf(last.characters) :
               Cardinality({l \in links_of(itemcharacter, last.item_id) :
                               character[l.character_id] = name}) = 1

\* C5: after a completed sync the characters linked to the item are exactly
\* the distinct names of the field, whatever the item linked before
C5_FullReplace ==
    (last.n > 0 /\ last.ok) =>
        LinkedNames(last.item_id) = NamesOf(last.characters)

\* C6: a sync that repeats the one before it (same application, same item,
\* same field value) leaves the (name, is_primary) pairs of the item as the
\* first run left them
C6_Idempotent ==
    [][last'.again =>
           LinkedPairs(last.item_id)' = LinkedPairs(last.item_id)]_vars

\* C6 happens: a completed sync repeated the one before it on an item that
\* now links two characters or more
C6_RanTwice ==
    /\ last.again
    /\ last.ok
    /\ Cardinality(LinkedPairs(last.item_id)) >= 2

\* C7: while a Django save is inside its atomic block, and after a statement
\* of it raised, the committed Character table and the committed links of the
\* item are what they were before the save
C7_FailureLeavesCommitted ==
    txn.pc # "idle" =>
        /\ character = txn.before.character
        /\ links_of(itemcharacter, txn.item_id) =
               links_of(txn.before.itemcharacter, txn.item_id)

\* C7 happens: a Django save raised after it had deleted links the item had,
\* inserted new ones and created a Character
C7_RaisedPartway ==
    /\ txn.pc = "raised"
    /\ links_of(txn.before.itemcharacter, txn.item_id) # {}
    /\ links_of(txn.st.itemcharacter, txn.item_id) # {}
    /\ links_of(txn.st.itemcharacter, txn.item_id) #
           links_of(txn.before.itemcharacter, txn.item_id)
    /\ txn.st.character # txn.before.character

\* the sync of session p run alone on the database the request began with
Alone(p) ==
    fastapi_sync_characters(sess[p].before, sess[p].item_id, sess[p].characters)

\* the links the item of session p had when the request began
Prior(p) == pairs_in(sess[p].before, sess[p].item_id)

\* no other request has synced the item of session p since p began
Unrivalled(p) == ~sess[p].overlap /\ rivals(p, sess[p].item_id) = {}

\* C8: at every commit point of a FastAPI sync that no other request
\* interferes with, the committed links of the item are the complete prior
\* set or the complete new set, and after a sync that failed they are the
\* prior set
C8_NoPartialCommit ==
    \A p \in Sessions :
        /\ (Running(p) /\ Unrivalled(p)) =>
               LinkedPairs(sess[p].item_id) \in
                   {Prior(p)} \cup
                   (IF Alone(p).s.pc = "done"
                    THEN {pairs_in(Alone(p).db, sess[p].item_id)} ELSE {})
        /\ (sess[p].pc = "failed" /\ sess[p].n = last.n /\ Unrivalled(p)) =>
               LinkedPairs(sess[p].item_id) = Prior(p)

\* C9: when two FastAPI syncs of one item ran concurrently and both
\* committed, the links of the item are those the sync that committed last
\* leaves when run alone
C9_LastCommitterWins ==
    \A p, q \in Sessions :
        (/\ p # q
         /\ sess[p].pc = "done" /\ sess[q].pc = "done"
         /\ sess[p].overlap /\ sess[q].overlap
         /\ sess[p].item_id = sess[q].item_id
         /\ sess[p].n = last.n /\ sess[q].n < sess[p].n) =>
            LinkedPairs(sess[p].item_id) = pairs_in(Alone(p).db, sess[p].item_id)

\* C10: a sync of an absent, empty or all-whitespace field completes, leaves
\* the item without links and creates no Character
C10_EmptyFieldClearsLinks ==
    (last.n > 0 /\ EmptyField(last.characters)) =>
        /\ last.ok
        /\ links_of(itemcharacter, last.item_id) = {}
        /\ last.created = 0

\* C10 happens: update_item was given such a field for an item that had links
C10_ClearedLinks ==
    /\ last.n > 0
    /\ EmptyField(last.characters)
    /\ last.view = "update_item"
    /\ last.had > 0

\* C11: no request deletes a Character or changes the id or the name of one:
\* every row of the character table is still there, unchanged, after the
\* request, also when no item links it any more
C11_CharactersOnlyGrow ==
    [][/\ Len(character') >= Len(character)
       /\ \A i \in 1..Len(character) : character'[i] = character[i]]_vars

\* C11 happens: an item that had links was synced again, and a Character is
\* left that no item links
C11_UnlinkedCharacterKept ==
    /\ last.n > 1
    /\ last.had > 0
    /\ \E i \in 1..Len(character) :
           \A l \in itemcharacter : l.character_id # i

(***************************************************************************)
(* The characters field as the edit forms show it                          *)
(***************************************************************************)

\* the place of a letter in the order of LOWER(c.name)
rank(c) ==
    IF \E i \in 1..26 : LOWERCASE[i] = c
    THEN CHOOSE i \in 1..26 : LOWERCASE[i] = c
    ELSE 0

\* a sorts before b
RECURSIVE name_before(_, _)
name_before(a, b) ==
    IF b = <<>> THEN FALSE
    ELSE IF a = <<>> THEN TRUE
    ELSE IF rank(Head(a)) # rank(Head(b)) THEN rank(Head(a)) < rank(Head(b))
    ELSE name_before(Tail(a), Tail(b))

\* ORDER BY ic.is_primary DESC, LOWER(c.name)
row_before(r, s) ==
    IF r.is_primary # s.is_primary THEN r.is_primary
    ELSE name_before(lower(r.name), lower(s.name))

\* the rows of the join of itemcharacter and character for one item
rows_of(db, pk) ==
    {[id |-> l.character_id, name |-> db.character[l.character_id],
      is_primary |-> l.is_primary, role |-> l.role] :
        l \in links_of(db.itemcharacter, pk)}

\* the orders a SELECT can give the rows of S in
orders(S) ==
    {f \in [1..Cardinality(S) -> S] :
        \A i, j \in 1..Cardinality(S) : i # j => f[i] # f[j]}

\* Item.character_rows(): the rows in the order of the ORDER BY
character_rows(db, pk) ==
    CHOOSE f \in orders(rows_of(db, pk)) :
        \A i, j \in DOMAIN f : i < j => ~row_before(f[j], f[i])

\* f"{name}{' |primary' if is_primary else ''}" for each row, joined by ", "
characters_csv(rows) ==
    join(<<",", " ">>,
         [i \in DOMAIN rows |->
             rows[i].name \o (IF rows[i].is_primary
                              THEN <<" ","|","p","r","i","m","a","r","y">>
                              ELSE <<>>)])

\* _initial_data_for_item(item)["characters"]
initial_data_for_item(db, pk) == characters_csv(character_rows(db, pk))

\* item_detail: the text of item.character_links, which the relationship
\* loads in no stated order
item_detail(db, pk) == {characters_csv(f) : f \in orders(rows_of(db, pk))}

\* C12: in every state the requests reach, submitting the text an edit form
\* shows for an item back to the same application completes and leaves the
\* (name, is_primary) pairs of the item unchanged
C12_RoundTrip ==
    \A pk \in item :
        /\ pairs_in(save_item_from_form(
                        Committed, pk, initial_data_for_item(Committed, pk)),
                    pk) = LinkedPairs(pk)
        /\ \A text \in item_detail(Committed, pk) :
               \E r \in {fastapi_sync_characters(Committed, pk, text)} :
                   r.s.pc = "done" /\ pairs_in(r.db, pk) = LinkedPairs(pk)

(***************************************************************************)
(* The parser called on its own: split_characters of app/utils.py, as the  *)
(* importer and the tests call it, and _split_characters of the Django     *)
(* views; then what each sync reads from the entries                       *)
(***************************************************************************)

\* the tokens of the parsed texts
Tokens ==
    {<<"J","a","z","z">>,    \* "Jazz"
     <<" "," ","P","r","o","w","l"," ">>,    \* "  Prowl "
     <<"A","r","c","e","e"," ","|"," ","p","r","i","m","a","r","y">>,    \* "Arcee | primary"
     <<"J","a","z","z"," ","|"," ","P","r","i","m","a","r","y">>,    \* "Jazz | Primary"
     <<"P","r","o","w","l"," ","|"," "," "," ","P","R","I","M","A","R","Y">>,    \* "Prowl |   PRIMARY"
     <<"J","a","z","z"," ","|">>,    \* "Jazz |"
     <<"J","a","z","z"," ","|"," ","|">>,    \* "Jazz | |"
     <<"|","p","r","i","m","a","r","y">>,    \* "|primary"
     <<"|">>,    \* "|"
     <<"A","r","c","e","e"," ","|","r","o","l","e",":","l","e","a","d","e","r">>,    \* "Arcee |role:leader"
     <<"P","r","o","w","l"," ","|"," ","x"," ","|"," ","p","r","i","m","a","r","y">>,    \* "Prowl | x | primary"
     <<>>,    \* ""
     <<" "," ">>,    \* "  "
     <<"p","r","i","m","a","r","y"," ","|"," ","J","a","z","z">>}    \* "primary | Jazz"

\* what separates two tokens
Separators == {",", ";", "\n"}

\* "Arcee |primary; Jazz, Prowl"
MixedSeparators ==
    Arcee \o <<" ","|","p","r","i","m","a","r","y",";"," ">>
    \o Jazz \o <<","," ">> \o Prowl

\* the texts parsed: no text, one token, two tokens with a separator between
\* them, and the texts with three tokens
ParserInputs ==
    {None, MixedSeparators, ThreeMarked}
    \cup Tokens
    \cup {t \o <<sep>> \o u : t \in Tokens, sep \in Separators, u \in Tokens}

\* a text is handed to a parser
Called(v) ==
    [fn |-> "input", value |-> v, entries |-> <<>>, reads |-> <<>>]

InitParser == NoRequests /\ call \in {Called(v) : v \in ParserInputs}

\* split_characters(value) returns
call_split_characters ==
    /\ call.fn = "input"
    /\ call' = [call EXCEPT !.fn = "split_characters",
                            !.entries = split_characters(call.value)]
    /\ UNCHANGED <<item, character, itemcharacter, last, txn, sess>>

\* _split_characters(value) returns
call_django_split_characters ==
    /\ call.fn = "input"
    /\ call' = [call EXCEPT !.fn = "_split_characters",
                            !.entries = django_split_characters(call.value)]
    /\ UNCHANGED <<item, character, itemcharacter, last, txn, sess>>

\* the loop of the FastAPI _sync_characters reads the entries
fastapi_read_entries ==
    /\ call.fn = "split_characters"
    /\ call' = [call EXCEPT !.fn = "fastapi_sync",
                            !.reads = [i \in DOMAIN call.entries |->
                                          fastapi_read(call.entries[i])]]
    /\ UNCHANGED <<item, character, itemcharacter, last, txn, sess>>

\* the loop of the Django _sync_characters reads the entries
django_read_entries ==
    /\ call.fn = "_split_characters"
    /\ call' = [call EXCEPT !.fn = "django_sync",
                            !.reads = [i \in DOMAIN call.entries |->
                                          django_read(call.entries[i])]]
    /\ UNCHANGED <<item, character, itemcharacter, last, txn, sess>>

NextParser ==
    \/ call_split_characters
    \/ call_django_split_characters
    \/ fastapi_read_entries
    \/ django_read_entries

SpecParser == InitParser /\ [][NextParser]_vars

\* the pieces of a text between its ',', ';' and line breaks, read left to
\* right
RECURSIVE pieces_from(_, _, _, _)
pieces_from(s, i, done, piece) ==
    IF i > Len(s) THEN Append(done, piece)
    ELSE IF s[i] \in Separators
    THEN pieces_from(s, i + 1, Append(done, piece), <<>>)
    ELSE pieces_from(s, i + 1, done, Append(piece, s[i]))

\* the trimmed, non-empty tokens of a text, in their order
TrimmedTokens(v) ==
    IF v = None THEN <<>>
    ELSE LET p == pieces_from(v, 1, <<>>, <<>>)
         IN  non_empty([i \in DOMAIN p |-> strip(p[i])])

\* the text with every separator written as ','
WithCommas(v) == IF v = None THEN v ELSE replace(replace(v, ";", ","), "\n", ",")

\* a parser has returned
Parsed == call.fn \in {"split_characters", "_split_characters"}

\* C13: split_characters gives one entry for each trimmed, non-empty token,
\* in the order of the text: the token itself when it has no '|', an entry
\* with the token's name otherwise; and it gives the same entries when every
\* separator is written as ','
C13_SeparatorsEquivalent ==
    Parsed =>
        LET want == TrimmedTokens(call.value) IN
        /\ Len(call.entries) = Len(want)
        /\ \A i \in DOMAIN want :
               IF contains(want[i], "|")
               THEN strip(split(call.entries[i], "|")[1]) =
                        strip(split(want[i], "|")[1])
               ELSE call.entries[i] = want[i]
        /\ split_characters(WithCommas(call.value)) = call.entries

\* C13 happens: a text that mixes ';' and ',' was parsed into three entries
C13_MixedParsed ==
    /\ call.fn = "split_characters"
    /\ call.value = MixedSeparators
    /\ call.entries = <<Arcee \o <<" ","|","p","r","i","m","a","r","y">>,
                        Jazz, Prowl>>

\* the name followed by " |" and the modifier, for each modifier in turn
RECURSIVE with_modifiers(_, _)
with_modifiers(name, mods) ==
    IF mods = <<>> THEN name
    ELSE with_modifiers(name \o <<" ", "|">> \o Head(mods), Tail(mods))

\* the normal form of a token: its trimmed name, then its trimmed, non-empty
\* modifiers as they are written
Normal(token) ==
    LET raw == split(token, "|")
    IN  with_modifiers(strip(raw[1]),
                       non_empty([i \in 1..(Len(raw) - 1) |-> strip(raw[i + 1])]))

\* C14: both parsers give, for every token that contains '|', the trimmed
\* name followed by " |" + modifier for each non-empty modifier, the
\* modifiers trimmed and in the letter case of the text
C14_TokensNormalized ==
    Parsed =>
        LET want == TrimmedTokens(call.value) IN
        /\ Len(call.entries) = Len(want)
        /\ \A i \in DOMAIN want :
               contains(want[i], "|") => call.entries[i] = Normal(want[i])

\* C14 happens: "Arcee | primary, Jazz | Primary ; Prowl |   PRIMARY" was
\* parsed into "Arcee |primary", "Jazz |Primary", "Prowl |PRIMARY"
C14_MarkersTrimmed ==
    /\ Parsed
    /\ call.value = ThreeMarked
    /\ call.entries = <<Arcee \o <<" ","|","p","r","i","m","a","r","y">>,
                        Jazz \o <<" ","|","P","r","i","m","a","r","y">>,
                        Prowl \o <<" ","|","P","R","I","M","A","R","Y">>>>

\* a sync has read the entries a parser gave
Read == call.fn \in {"fastapi_sync", "django_sync"}

\* the modifiers of an entry: its segments after the first '|', trimmed
Modifiers(e) ==
    LET raw == split(e, "|")
    IN  [i \in 1..(Len(raw) - 1) |-> strip(raw[i + 1])]

\* a modifier of the entry is "primary" in some letter case
HasPrimaryModifier(e) ==
    \E i \in DOMAIN Modifiers(e) : lower(Modifiers(e)[i]) = PRIMARY

\* C15: each sync treats an entry as marked primary exactly when one of its
\* modifiers is "primary" in some letter case; other modifiers and the name
\* mark nothing
C15_MarkedIffPrimaryModifier ==
    Read =>
        \A i \in DOMAIN call.entries :
            (~call.reads[i].skipped /\ call.reads[i].is_primary)
                <=> HasPrimaryModifier(call.entries[i])

\* a token with a '|' and nothing but whitespace in its modifiers
OnlyEmptyModifiers(token) ==
    /\ contains(token, "|")
    /\ \A i \in DOMAIN Modifiers(token) : Modifiers(token)[i] = <<>>

\* C16: a parser returns a list for every text, one entry per token; a token
\* such as "Name |" or "Name | |" becomes the entry "Name" without a '|',
\* and each sync reads that entry as an unmarked entry named Name
C16_MalformedModifiers ==
    LET want == TrimmedTokens(call.value) IN
    /\ (Parsed \/ Read) => Len(call.entries) = Len(want)
    /\ (Parsed \/ Read) =>
           \A i \in DOMAIN want :
               OnlyEmptyModifiers(want[i]) =>
                   /\ call.entries[i] = strip(split(want[i], "|")[1])
                   /\ ~contains(call.entries[i], "|")
    /\ Read =>
           \A i \in DOMAIN want :
               (OnlyEmptyModifiers(want[i]) /\ call.entries[i] # <<>>) =>
                   call.reads[i] = [skipped |-> FALSE,
                                    name |-> strip(split(want[i], "|")[1]),
                                    is_primary |-> FALSE]

\* C16 happens: "Jazz | |" was parsed and read as the unmarked entry Jazz
C16_TrailingBarRead ==
    /\ Read
    /\ call.value = <<"J","a","z","z"," ","|"," ","|">>
    /\ call.entries = <<Jazz>>
    /\ call.reads = <<[skipped |-> FALSE, name |-> Jazz, is_primary |-> FALSE]>>

(***************************************************************************)
(* The upsert-by-name helpers, called one after another on one table       *)
(* (company, line, series, ...): names[id] is the name of row id and       *)
(* company_id[id] its company_id column, 0 for NULL                        *)
(***************************************************************************)

\* the helper calls of one behaviour
MaxCalls == 3

\* the names the helpers are called with: None, "", " ", "Jazz", " Jazz ",
\* "Prowl"
HelperNames ==
    {None, <<>>, <<" ">>, Jazz, <<" ">> \o Jazz \o <<" ">>, Prowl}

\* the company argument of _get_or_create_line: None or the company with id 1
Companies == {0, 1}

Table(names, company_id) == [names |-> names, company_id |-> company_id]

\* _clean_name
clean_name(value) ==
    IF Falsy(value) THEN None
    ELSE IF strip(value) = <<>> THEN None ELSE strip(value)

\* model.objects.get_or_create(name=cleaned) on a table: the row and the table
manager_get_or_create(tbl, cleaned) ==
    LET names == objects_get_or_create(tbl.names, cleaned)
    IN  [obj |-> character_id(names, cleaned),
         tbl |-> Table(names,
                       IF Len(names) > Len(tbl.names)
                       THEN Append(tbl.company_id, 0) ELSE tbl.company_id)]

\* _get_or_create_company and _get_or_create_by_name: obj = 0 stands for None
get_or_create_by_name(tbl, name) ==
    IF clean_name(name) = None THEN [obj |-> 0, tbl |-> tbl]
    ELSE manager_get_or_create(tbl, clean_name(name))

get_or_create_company(tbl, name) ==
    IF clean_name(name) = None THEN [obj |-> 0, tbl |-> tbl]
    ELSE manager_get_or_create(tbl, clean_name(name))

\* _get_or_create_line: a line without a company is given the company
get_or_create_line(tbl, name, company) ==
    IF clean_name(name) = None THEN [obj |-> 0, tbl |-> tbl]
    ELSE LET got == manager_get_or_create(tbl, clean_name(name))
         IN  IF company # 0 /\ got.tbl.company_id[got.obj] = 0
             THEN [obj |-> got.obj,
                   tbl |-> [got.tbl EXCEPT !.company_id[got.obj] = company]]
             ELSE got

\* get_or_create of app/utils.py on a table
utils_get_or_create(tbl, name) ==
    LET got == get_or_create(tbl.names, name)
    IN  [obj |-> got.obj,
         tbl |-> Table(got.character,
                       IF Len(got.character) > Len(tbl.names)
                       THEN Append(tbl.company_id, 0) ELSE tbl.company_id)]

\* get_or_create_by_name of the CSV seeder
seed_get_or_create_by_name(tbl, name) ==
    IF Falsy(name) \/ strip(name) = <<>> THEN [obj |-> 0, tbl |-> tbl]
    ELSE IF has_character(tbl.names, strip(name))
    THEN [obj |-> character_id(tbl.names, strip(name)), tbl |-> tbl]
    ELSE [obj |-> Len(tbl.names) + 1,
          tbl |-> Table(Append(tbl.names, strip(name)),
                        Append(tbl.company_id, 0))]

\* no helper has been called on the empty table
InitUpsert ==
    /\ NoRequests
    /\ call = [fn |-> "none", n |-> 0, name |-> None, company |-> 0,
               obj |-> 0, tbl |-> Table(<<>>, <<>>),
               before |-> Table(<<>>, <<>>), again |-> FALSE, prev |-> 0]

\* a helper returned: what it was called with, on which table, what it gave
Returned(fn, name, company, r) ==
    [fn |-> fn, n |-> call.n + 1, name |-> name, company |-> company,
     obj |-> r.obj, tbl |-> r.tbl, before |-> call.tbl,
     again |-> call.fn = fn /\ call.name = name /\ call.company = company,
     prev |-> call.obj]

helper_call(fn, name, company, r) ==
    /\ call.n < MaxCalls
    /\ call' = Returned(fn, name, company, r)
    /\ UNCHANGED <<item, character, itemcharacter, last, txn, sess>>

call_get_or_create(name) ==
    helper_call("get_or_create", name, 0, utils_get_or_create(call.tbl, name))

call_seed_get_or_create_by_name(name) ==
    helper_call("get_or_create_by_name", name, 0,
                seed_get_or_create_by_name(call.tbl, name))

call_get_or_create_company(name) ==
    helper_call("_get_or_create_company", name, 0,
                get_or_create_company(call.tbl, name))

call_get_or_create_by_name(name) ==
    helper_call("_get_or_create_by_name", name, 0,
                get_or_create_by_name(call.tbl, name))

call_get_or_create_line(name, company) ==
    helper_call("_get_or_create_line", name, company,
                get_or_create_line(call.tbl, name, company))

NextUpsert ==
    \/ \E name \in HelperNames : call_get_or_create(name)
    \/ \E name \in HelperNames : call_seed_get_or_create_by_name(name)
    \/ \E name \in HelperNames : call_get_or_create_company(name)
    \/ \E name \in HelperNames : call_get_or_create_by_name(name)
    \/ \E name \in HelperNames, company \in Companies :
           call_get_or_create_line(name, company)

SpecUpsert == InitUpsert /\ [][NextUpsert]_vars

\* a helper was called with a name that is not empty after trimming
Upserted == call.n > 0 /\ clean_name(call.name) # None

\* C17: a helper called with a name returns the row of that name; when the
\* row existed, no row is added and no field of a row changes; otherwise
\* exactly one row is added and the others stay as they were; the same call
\* made again returns the same row
C17_FindOrCreate ==
    Upserted =>
        LET name == clean_name(call.name) IN
        /\ call.obj \in DOMAIN call.tbl.names
        /\ call.tbl.names[call.obj] = name
        /\ IF has_character(call.before.names, name)
           THEN call.tbl = call.before
           ELSE /\ Len(call.tbl.names) = Len(call.before.names) + 1
                /\ \A i \in DOMAIN call.before.names :
                       /\ call.tbl.names[i] = call.before.names[i]
                       /\ call.tbl.company_id[i] = call.before.company_id[i]
        /\ call.again => call.obj = call.prev /\ call.tbl.names = call.before.names

(***************************************************************************)
(* The database target: the environment is read once when app.db.session   *)
(* is imported (DB_URL = resolve_database_url()), and the CSV importer     *)
(* then checks the resolved URL against its --allow-sqlite flag            *)
(***************************************************************************)

DEFAULT_SQLITE_URL ==
    <<"s", "q", "l", "i", "t", "e", ":", "/", "/", "/", ".", "/",
      "c", "o", "l", "l", "e", "c", "t", "i", "o", "n", ".", "d", "b">>

\* "sqlite:///:memory:"
MemoryUrl ==
    <<"s", "q", "l", "i", "t", "e", ":", "/", "/", "/",
      ":", "m", "e", "m", "o", "r", "y", ":">>

\* "sqlite:///collection.db": the same file, written without "./"
OtherSqliteUrl ==
    <<"s", "q", "l", "i", "t", "e", ":", "/", "/", "/",
      "c", "o", "l", "l", "e", "c", "t", "i", "o", "n", ".", "d", "b">>

\* the default of os.getenv("DB_DRIVER", ...): "mysql+pymysql"
DefaultDriver ==
    <<"m", "y", "s", "q", "l", "+", "p", "y", "m", "y", "s", "q", "l">>

_REQUIRED_COMPONENT_KEYS == {"DB_USER", "DB_PASSWORD", "DB_HOST", "DB_NAME"}

\* the environments of the model: a variable is unset (None), empty or set;
\* the password holds a character that the rendered URL escapes; the ports
\* are "3306", " 33 " (int() accepts it), "abc" and "3.5"
Environments ==
    [DB_URL : {None, <<>>, DEFAULT_SQLITE_URL, MemoryUrl, OtherSqliteUrl},
     DB_USER : {None, <<>>, <<"u">>},
     DB_PASSWORD : {None, <<>>, <<"p", "@">>},
     DB_HOST : {None, <<>>, <<"h">>},
     DB_NAME : {None, <<>>, <<"d", "b">>},
     DB_PORT : {None, <<>>, <<"3", "3", "0", "6">>, <<" ", "3", "3", " ">>,
                <<"a", "b", "c">>, <<"3", ".", "5">>},
     DB_DRIVER : {None, <<"p", "g">>}]

\* os.getenv(key) and os.getenv(key, default)
getenv(environ, key) == environ[key]

getenv_default(environ, key, default) ==
    IF environ[key] = None THEN default ELSE environ[key]

Digits == <<"0", "1", "2", "3", "4", "5", "6", "7", "8", "9">>

is_digit(c) == \E d \in 1..Len(Digits) : Digits[d] = c

digit_value(c) == (CHOOSE d \in 1..Len(Digits) : Digits[d] = c) - 1

RECURSIVE decimal(_)
decimal(s) ==
    IF s = <<>> THEN 0
    ELSE 10 * decimal(SubSeq(s, 1, Len(s) - 1)) + digit_value(s[Len(s)])

\* int(text) of an unsigned port: surrounding whitespace is dropped, and what
\* is left must be digits; -1 stands for ValueError
int(text) ==
    LET s == strip(text)
    IN  IF s # <<>> /\ \A i \in 1..Len(s) : is_digit(s[i])
        THEN decimal(s) ELSE -1

RECURSIVE str(_)
str(n) ==
    IF n < 10 THEN <<Digits[n + 1]>>
    ELSE str(n \div 10) \o <<Digits[(n % 10) + 1]>>

\* urllib.parse.quote(text, safe=" +") on the characters of the model
quote_char(c) ==
    IF c = "@" THEN <<"%", "4", "0">>
    ELSE IF c = ":" THEN <<"%", "3", "A">>
    ELSE IF c = "/" THEN <<"%", "2", "F">>
    ELSE <<c>>

RECURSIVE quote(_)
quote(text) ==
    IF text = <<>> THEN <<>> ELSE quote_char(Head(text)) \o quote(Tail(text))

\* URL.create(...).render_as_string(hide_password=False); port = None is -1
render_as_string(driver, username, password, host, port, database) ==
    driver \o <<":", "/", "/">> \o quote(username) \o <<":">>
        \o quote(password) \o <<"@">>
        \o (IF contains(host, ":") THEN <<"[">> \o host \o <<"]">> ELSE host)
        \o (IF port = -1 THEN <<>> ELSE <<":">> \o str(port))
        \o <<"/">> \o database

provided_required(environ) ==
    {key \in _REQUIRED_COMPONENT_KEYS : ~Falsy(getenv(environ, key))}

Raise(exception) == [raised |-> exception, url |-> None]

Return(url) == [raised |-> "", url |-> url]

\* _build_url_from_components with the required check left out
build_url_unchecked(environ) ==
    IF provided_required(environ) = {} THEN Return(None)
    ELSE Return(render_as_string(
             getenv_default(environ, "DB_DRIVER", DefaultDriver),
             environ.DB_USER, environ.DB_PASSWORD, environ.DB_HOST,
             -1, environ.DB_NAME))

\* _build_url_from_components
build_url_from_components(environ) ==
    IF /\ provided_required(environ) # {}
       /\ provided_required(environ) # _REQUIRED_COMPONENT_KEYS
    THEN Raise("RuntimeError")
    ELSE IF provided_required(environ) = {} THEN Return(None)
    ELSE LET port_raw == getenv(environ, "DB_PORT")
         IN  IF ~Falsy(port_raw) /\ int(port_raw) = -1
             THEN Raise("RuntimeError")
             ELSE Return(render_as_string(
                      getenv_default(environ, "DB_DRIVER", DefaultDriver),
                      environ.DB_USER, environ.DB_PASSWORD, environ.DB_HOST,
                      IF Falsy(port_raw) THEN -1 ELSE int(port_raw),
                      environ.DB_NAME))

\* resolve_database_url with the components read before DB_URL
resolve_components_first(environ) ==
    LET component_url == build_url_from_components(environ)
    IN  IF component_url.raised # "" THEN component_url
        ELSE IF ~Falsy(component_url.url) THEN component_url
        ELSE IF ~Falsy(getenv(environ, "DB_URL"))
        THEN Return(getenv(environ, "DB_URL"))
        ELSE Return(DEFAULT_SQLITE_URL)

\* resolve_database_url
resolve_database_url(environ) ==
    IF ~Falsy(getenv(environ, "DB_URL")) THEN Return(getenv(environ, "DB_URL"))
    ELSE LET component_url == build_url_from_components(environ)
         IN  IF component_url.raised # "" THEN component_url
             ELSE IF ~Falsy(component_url.url) THEN component_url
             ELSE Return(DEFAULT_SQLITE_URL)

\* ensure_database_target refusing every sqlite URL
refuse_any_sqlite(db_url, allow_sqlite) ==
    IF ~allow_sqlite /\ Len(db_url) >= 6
           /\ SubSeq(db_url, 1, 6) = SubSeq(DEFAULT_SQLITE_URL, 1, 6)
    THEN "SystemExit" ELSE ""

\* ensure_database_target: the exception it raises, "" when it returns
ensure_database_target(db_url, allow_sqlite) ==
    IF ~allow_sqlite /\ db_url = DEFAULT_SQLITE_URL THEN "SystemExit" ELSE ""

\* the process starts in one of the environments; nothing is imported yet
InitDatabase ==
    /\ NoRequests
    /\ call \in {[fn |-> "environ", environ |-> e, raised |-> "",
                  DB_URL |-> None, allow_sqlite |-> FALSE] :
                     e \in Environments}

\* import app.db.session: DB_URL = resolve_database_url()
import_session ==
    /\ call.fn = "environ"
    /\ \E r \in {resolve_database_url(call.environ)} :
           call' = [call EXCEPT !.fn = "resolve_database_url",
                                !.raised = r.raised, !.DB_URL = r.url]
    /\ UNCHANGED <<item, character, itemcharacter, last, txn, sess>>

\* main() of the CSV importer: ensure_database_target(DB_URL, allow_sqlite)
import_csv_main(allow_sqlite) ==
    /\ call.fn = "resolve_database_url"
    /\ call.raised = ""
    /\ call' = [call EXCEPT
                   !.fn = "ensure_database_target",
                   !.allow_sqlite = allow_sqlite,
                   !.raised = ensure_database_target(call.DB_URL, allow_sqlite)]
    /\ UNCHANGED <<item, character, itemcharacter, last, txn, sess>>

NextDatabase ==
    \/ import_session
    \/ \E allow_sqlite \in BOOLEAN : import_csv_main(allow_sqlite)

SpecDatabase == InitDatabase /\ [][NextDatabase]_vars

Ensured == call.fn = "ensure_database_target"

Resolved == call.fn = "resolve_database_url"

\* C18: ensure_database_target raises SystemExit exactly when allow_sqlite
\* is false and the URL is DEFAULT_SQLITE_URL, character for character
C18_RefusesDefaultSqliteOnly ==
    Ensured =>
        (call.raised = "SystemExit"
            <=> ~call.allow_sqlite /\ call.DB_URL = DEFAULT_SQLITE_URL)

\* C18 witness: another sqlite URL passes without --allow-sqlite
C18_MemoryUrlAccepted ==
    /\ Ensured
    /\ ~call.allow_sqlite
    /\ call.DB_URL = MemoryUrl
    /\ call.raised = ""

Provided(key) == call.environ[key] \notin {None, <<>>}

AllProvided == \A key \in _REQUIRED_COMPONENT_KEYS : Provided(key)

NoneProvided == \A key \in _REQUIRED_COMPONENT_KEYS : ~Provided(key)

\* the text after the host of a component URL: ":port" and "/name"
PortAndName ==
    (IF Provided("DB_PORT") THEN <<":">> \o str(int(call.environ.DB_PORT))
     ELSE <<>>) \o <<"/">> \o call.environ.DB_NAME

\* the URL made of the components of the environment
ComponentUrl ==
    (IF call.environ.DB_DRIVER = None THEN DefaultDriver
     ELSE call.environ.DB_DRIVER)
        \o <<":", "/", "/">> \o quote(call.environ.DB_USER)
        \o <<":">> \o quote(call.environ.DB_PASSWORD)
        \o <<"@">> \o call.environ.DB_HOST \o PortAndName

IntegerPort == int(call.environ.DB_PORT) # -1

\* C20: without DB_URL, RuntimeError is raised exactly when some but not all
\* of the four required variables are set, or all four are set and DB_PORT
\* is set to something that is not an integer
C20_RaisesOnBadComponents ==
    Resolved =>
        (call.raised = "RuntimeError"
            <=> /\ ~Provided("DB_URL")
                /\ \/ ~AllProvided /\ ~NoneProvided
                   \/ AllProvided /\ Provided("DB_PORT") /\ ~IntegerPort)

\* C20 witness: all four are set and the port is not a number
C20_BadPortRaised ==
    /\ Resolved
    /\ AllProvided
    /\ call.environ.DB_PORT = <<"a", "b", "c">>
    /\ call.raised = "RuntimeError"

(***************************************************************************)
(* verify_connection of app/db/session.py, statement by statement.         *)
(* created and disposed count the temporary engines the running call built *)
(* and disposed; shared_disposed counts engine.dispose() on the module's   *)
(* engine over the whole behaviour                                         *)
(***************************************************************************)

\* the calls of verify_connection in one behaviour
MaxVerifies == 3

\* the url argument: None, "" and two URLs
VerifyUrls == {None, <<>>, MemoryUrl, DEFAULT_SQLITE_URL}

\* what a database call does: it returns, raises an SQLAlchemyError, or
\* raises something else (an OSError, a KeyboardInterrupt)
Outcomes == {"ok", "SQLAlchemyError", "Exception"}

InitVerify ==
    /\ NoRequests
    /\ call = [fn |-> "verify_connection", n |-> 0, pc |-> "idle",
               url |-> None, target |-> "none", created |-> 0,
               disposed |-> 0, shared_disposed |-> 0, raised |-> ""]

VerifyStep(c) ==
    /\ call' = c
    /\ UNCHANGED <<item, character, itemcharacter, last, txn, sess>>

\* verify_connection(url) is called
verify_connection(url) ==
    /\ call.pc = "idle"
    /\ call.n < MaxVerifies
    /\ VerifyStep([call EXCEPT !.n = @ + 1, !.pc = "create", !.url = url,
                               !.target = "none", !.created = 0,
                               !.disposed = 0, !.raised = ""])

\* target_engine = _create_engine(url) if url else engine; create_engine can
\* raise (a URL it cannot parse, a driver that is not installed), and that
\* is outside the try
create_target_engine(outcome) ==
    /\ call.pc = "create"
    /\ IF Falsy(call.url)
       THEN /\ outcome = "ok"
            /\ VerifyStep([call EXCEPT !.pc = "connect", !.target = "shared"])
       ELSE IF outcome = "ok"
       THEN VerifyStep([call EXCEPT !.pc = "connect", !.target = "temporary",
                                    !.created = @ + 1])
       ELSE VerifyStep([call EXCEPT !.pc = "idle", !.raised = outcome])

\* with target_engine.connect() as connection
connect(outcome) ==
    /\ call.pc = "connect"
    /\ VerifyStep(
           IF outcome = "ok" THEN [call EXCEPT !.pc = "select"]
           ELSE IF outcome = "SQLAlchemyError"
           THEN [call EXCEPT !.pc = "except"]
           ELSE [call EXCEPT !.pc = "finally", !.raised = outcome])

\* connection.exec_driver_sql("SELECT 1"), then the end of the with block
exec_driver_sql(outcome) ==
    /\ call.pc = "select"
    /\ VerifyStep(
           IF outcome = "ok" THEN [call EXCEPT !.pc = "finally"]
           ELSE IF outcome = "SQLAlchemyError"
           THEN [call EXCEPT !.pc = "except"]
           ELSE [call EXCEPT !.pc = "finally", !.raised = outcome])

\* except SQLAlchemyError as exc: raise RuntimeError(...) from exc
except_SQLAlchemyError ==
    /\ call.pc = "except"
    /\ VerifyStep([call EXCEPT !.pc = "finally", !.raised = "RuntimeError"])

\* a finally block that disposes the target engine whatever url is
dispose_always(c) ==
    IF c.target = "temporary" THEN [c EXCEPT !.disposed = @ + 1]
    ELSE [c EXCEPT !.shared_disposed = @ + 1]

\* finally: if url: target_engine.dispose()
dispose_if_url(c) ==
    IF ~Falsy(c.url)
    THEN IF c.target = "temporary" THEN [c EXCEPT !.disposed = @ + 1]
         ELSE [c EXCEPT !.shared_disposed = @ + 1]
    ELSE c

\* the finally block, then the return or the exception leaves the function
finally_dispose ==
    /\ call.pc = "finally"
    /\ VerifyStep([dispose_if_url(call) EXCEPT !.pc = "idle"])

NextVerify ==
    \/ \E url \in VerifyUrls : verify_connection(url)
    \/ \E outcome \in Outcomes : create_target_engine(outcome)
    \/ \E outcome \in Outcomes : connect(outcome)
    \/ \E outcome \in Outcomes : exec_driver_sql(outcome)
    \/ except_SQLAlchemyError
    \/ finally_dispose

SpecVerify == InitVerify /\ [][NextVerify]_vars

\* a call of verify_connection is over
Verified == call.n > 0 /\ call.pc = "idle"

\* the call got past the construction of its engine
EngineChosen == call.target # "none"

\* C21: the module's engine is never disposed and no engine is disposed
\* twice; when a call is over it has disposed every temporary engine it
\* built; a call with a URL that got its engine built exactly one, and a
\* call without a URL built none and used the module's engine
C21_DisposesWhatItCreated ==
    /\ call.shared_disposed = 0
    /\ call.disposed <= call.created
    /\ Verified =>
           /\ call.disposed = call.created
           /\ EngineChosen /\ ~Falsy(call.url) =>
                  call.target = "temporary" /\ call.created = 1
           /\ Falsy(call.url) => call.target = "shared" /\ call.created = 0

\* C21 witness: a call with a URL whose check raised RuntimeError has
\* disposed its one temporary engine
C21_DisposedAfterFailure ==
    /\ Verified
    /\ call.url = MemoryUrl
    /\ call.raised = "RuntimeError"
    /\ call.created = 1
    /\ call.disposed = 1

(***************************************************************************)
(* The CSV importer's header map: build_header_map of import_csv.py.       *)
(* Field names are strings; headers and aliases are texts                  *)
(***************************************************************************)

\* DEFAULT_MAP: the aliases of each field, in the order they are tried
DEFAULT_MAP ==
    [name |->    \* name, figure, character, title
         <<<<"n","a","m","e">>,
           <<"f","i","g","u","r","e">>,
           <<"c","h","a","r","a","c","t","e","r">>,
           <<"t","i","t","l","e">>>>,
     company |->    \* company, manufacturer, brand
         <<<<"c","o","m","p","a","n","y">>,
           <<"m","a","n","u","f","a","c","t","u","r","e","r">>,
           <<"b","r","a","n","d">>>>,
     line |->    \* line, series (product line), sub-line, subline, brand line
         <<<<"l","i","n","e">>,
           <<"s","e","r","i","e","s"," ","(","p","r","o","d","u","c","t"," ","l","i","n","e",")">>,
           <<"s","u","b","-","l","i","n","e">>,
           <<"s","u","b","l","i","n","e">>,
           <<"b","r","a","n","d"," ","l","i","n","e">>>>,
     series |->    \* series, media, source
         <<<<"s","e","r","i","e","s">>,
           <<"m","e","d","i","a">>,
           <<"s","o","u","r","c","e">>>>,
     type |->    \* type, kind
         <<<<"t","y","p","e">>,
           <<"k","i","n","d">>>>,
     category |->    \* category, class, scale category
         <<<<"c","a","t","e","g","o","r","y">>,
           <<"c","l","a","s","s">>,
           <<"s","c","a","l","e"," ","c","a","t","e","g","o","r","y">>>>,
     sku |->    \* sku, code, id, figure id
         <<<<"s","k","u">>,
           <<"c","o","d","e">>,
           <<"i","d">>,
           <<"f","i","g","u","r","e"," ","i","d">>>>,
     version |->    \* version, release, variant
         <<<<"v","e","r","s","i","o","n">>,
           <<"r","e","l","e","a","s","e">>,
           <<"v","a","r","i","a","n","t">>>>,
     year |->    \* year, release year
         <<<<"y","e","a","r">>,
           <<"r","e","l","e","a","s","e"," ","y","e","a","r">>>>,
     order_date |->    \* order date, ordered
         <<<<"o","r","d","e","r"," ","d","a","t","e">>,
           <<"o","r","d","e","r","e","d">>>>,
     purchase_date |->    \* purchase date, bought, date
         <<<<"p","u","r","c","h","a","s","e"," ","d","a","t","e">>,
           <<"b","o","u","g","h","t">>,
           <<"d","a","t","e">>>>,
     ship_date |->    \* ship date, shipped
         <<<<"s","h","i","p"," ","d","a","t","e">>,
           <<"s","h","i","p","p","e","d">>>>,
     price |->    \* price, paid, cost
         <<<<"p","r","i","c","e">>,
           <<"p","a","i","d">>,
           <<"c","o","s","t">>>>,
     tax |->    \* tax, sales tax
         <<<<"t","a","x">>,
           <<"s","a","l","e","s"," ","t","a","x">>>>,
     shipping |->    \* shipping, postage
         <<<<"s","h","i","p","p","i","n","g">>,
           <<"p","o","s","t","a","g","e">>>>,
     currency |->    \* currency
         <<<<"c","u","r","r","e","n","c","y">>>>,
     order_number |->    \* order, order number
         <<<<"o","r","d","e","r">>,
           <<"o","r","d","e","r"," ","n","u","m","b","e","r">>>>,
     vendor |->    \* vendor, store, source, retailer, marketplace
         <<<<"v","e","n","d","o","r">>,
           <<"s","t","o","r","e">>,
           <<"s","o","u","r","c","e">>,
           <<"r","e","t","a","i","l","e","r">>,
           <<"m","a","r","k","e","t","p","l","a","c","e">>>>,
     condition |->    \* condition, state
         <<<<"c","o","n","d","i","t","i","o","n">>,
           <<"s","t","a","t","e">>>>,
     status |->    \* status, owned/sold/preorder, owned, preorder, sold, wishlist
         <<<<"s","t","a","t","u","s">>,
           <<"o","w","n","e","d","/","s","o","l","d","/","p","r","e","o","r","d","e","r">>,
           <<"o","w","n","e","d">>,
           <<"p","r","e","o","r","d","e","r">>,
           <<"s","o","l","d">>,
           <<"w","i","s","h","l","i","s","t">>>>,
     location |->    \* location, shelf, bin, box
         <<<<"l","o","c","a","t","i","o","n">>,
           <<"s","h","e","l","f">>,
           <<"b","i","n">>,
           <<"b","o","x">>>>,
     url |->    \* url, link
         <<<<"u","r","l">>,
           <<"l","i","n","k">>>>,
     characters |->    \* characters, character list, additional characters
         <<<<"c","h","a","r","a","c","t","e","r","s">>,
           <<"c","h","a","r","a","c","t","e","r"," ","l","i","s","t">>,
           <<"a","d","d","i","t","i","o","n","a","l"," ","c","h","a","r","a","c","t","e","r","s">>>>,
     faction |->    \* faction, allegiance
         <<<<"f","a","c","t","i","o","n">>,
           <<"a","l","l","e","g","i","a","n","c","e">>>>,
     notes |->    \* notes, comments
         <<<<"n","o","t","e","s">>,
           <<"c","o","m","m","e","n","t","s">>>>]

\* the header row of the sheet
Sheet1 ==
    <<<<"N","a","m","e">>,    \* Name
      <<"S","K","U">>,    \* SKU
      <<"C","h","a","r","a","c","t","e","r">>,    \* Character
      <<"A","d","d","i","t","i","o","n","a","l"," ","C","h","a","r","a","c","t","e","r","s">>,    \* Additional Characters
      <<"F","a","c","t","i","o","n">>,    \* Faction
      <<"S","e","r","i","e","s">>,    \* Series
      <<"L","i","n","e">>,    \* Line
      <<"C","o","m","p","a","n","y">>,    \* Company
      <<"T","y","p","e">>,    \* Type
      <<"C","a","t","e","g","o","r","y">>,    \* Category
      <<"O","r","d","e","r"," ","D","a","t","e">>,    \* Order Date
      <<"S","h","i","p"," ","D","a","t","e">>,    \* Ship Date
      <<"V","e","n","d","o","r">>,    \* Vendor
      <<"O","r","d","e","r"," ","#">>,    \* Order #
      <<"P","r","i","c","e">>,    \* Price
      <<"n","o","t","e","s">>>>    \* notes

\* user_map = None
NoUserMap == [field \in {} |-> <<>>]

\* a --map file that gives order_number the alias "order #"
OrderNumberMap ==
    [order_number |-> <<<<"o","r","d","e","r"," ","#">>>>]

UserMaps == {NoUserMap, OrderNumberMap}

\* a text in capitals
capitals(s) ==
    [i \in 1..Len(s) |->
        IF \E k \in 1..26 : LOWERCASE[k] = s[i]
        THEN UPPERCASE[CHOOSE k \in 1..26 : LOWERCASE[k] = s[i]]
        ELSE s[i]]

\* the header rows of the model: the sheet's row, the row without one of
\* its headers, and the row with one header repeated in capitals between
\* spaces
HeaderRows ==
    {Sheet1}
    \cup {SubSeq(Sheet1, 1, i - 1) \o SubSeq(Sheet1, i + 1, Len(Sheet1)) :
             i \in DOMAIN Sheet1}
    \cup {Append(Sheet1, <<" ">> \o capitals(Sheet1[i]) \o <<" ">>) :
             i \in DOMAIN Sheet1}

\* normalize(s): s.strip().lower()
normalize(s) == lower(strip(s))

\* hdr_norm = {normalize(h): h for h in headers}: a later header replaces an
\* earlier one with the same key
hdr_norm_keys(headers) == {normalize(headers[i]) : i \in DOMAIN headers}

hdr_norm(headers, key) ==
    headers[CHOOSE i \in DOMAIN headers :
                /\ normalize(headers[i]) = key
                /\ \A j \in DOMAIN headers :
                       normalize(headers[j]) = key => j <= i]

\* merged = DEFAULT_MAP.copy(), then the entries of user_map over it
merged(user_map) ==
    [field \in DOMAIN DEFAULT_MAP \cup DOMAIN user_map |->
        IF field \in DOMAIN user_map THEN user_map[field]
        ELSE DEFAULT_MAP[field]]

\* the loop over aliases: the header of the first alias the row has
found(headers, aliases) ==
    LET hits == {a \in DOMAIN aliases :
                    normalize(aliases[a]) \in hdr_norm_keys(headers)}
    IN  IF hits = {} THEN None
        ELSE hdr_norm(headers,
                      normalize(aliases[CHOOSE a \in hits :
                                            \A b \in hits : a <= b]))

\* a header map whose loop keeps the last alias the row has
found_last(headers, aliases) ==
    LET hits == {a \in DOMAIN aliases :
                    normalize(aliases[a]) \in hdr_norm_keys(headers)}
    IN  IF hits = {} THEN None
        ELSE hdr_norm(headers,
                      normalize(aliases[CHOOSE a \in hits :
                                            \A b \in hits : a >= b]))

build_header_map(headers, user_map) ==
    [field \in DOMAIN merged(user_map) |->
        found(headers, merged(user_map)[field])]

\* the importer has read the header row of a sheet
InitHeaders ==
    /\ NoRequests
    /\ call \in {[fn |-> "headers", headers |-> h, user_map |-> u,
                  mapping |-> NoUserMap] :
                     h \in HeaderRows, u \in UserMaps}

call_build_header_map ==
    /\ call.fn = "headers"
    /\ \E mapping \in {build_header_map(call.headers, call.user_map)} :
           call' = [call EXCEPT !.fn = "build_header_map",
                                !.mapping = mapping]
    /\ UNCHANGED <<item, character, itemcharacter, last, txn, sess>>

NextHeaders == call_build_header_map

SpecHeaders == InitHeaders /\ [][NextHeaders]_vars

\* the header each field of the sheet is said to map to: its place in Sheet1
Expected ==
    [name |-> 1, sku |-> 2, primary_character |-> 3, characters |-> 4,
     faction |-> 5, series |-> 6, line |-> 7, company |-> 8, type |-> 9,
     category |-> 10, order_date |-> 11, ship_date |-> 12, vendor |-> 13,
     order_number |-> 14, price |-> 15, notes |-> 16]

\* build_header_map was called without overrides on the sheet's header row
MappedSheet1 ==
    /\ call.fn = "build_header_map"
    /\ call.headers = Sheet1
    /\ call.user_map = NoUserMap

\* C22: without overrides, the map of the sheet's header row has every
\* listed field, and gives it the sheet's header as the sheet spells it
C22_SheetHeadersMapped ==
    MappedSheet1 =>
        \A field \in DOMAIN Expected :
            /\ field \in DOMAIN call.mapping
            /\ call.mapping[field] = Sheet1[Expected[field]]

(***************************************************************************)
(* The primary character a page shows for an item                          *)
(***************************************************************************)

\* the placeholder the admin shows, one em dash (U+2014)
EmDash == <<"-">>

\* the first link of the list that is marked primary, 0 when none is
first_primary(links) ==
    IF \E i \in DOMAIN links : links[i].is_primary
    THEN CHOOSE i \in DOMAIN links :
             /\ links[i].is_primary
             /\ \A j \in DOMAIN links : links[j].is_primary => i <= j
    ELSE 0

\* a display that shows the first link whatever is marked
display_first_link(links) ==
    IF links # <<>> THEN links[1].name ELSE EmDash

\* ItemAdmin.primary_character_display on the list _character_links gave
primary_character_display(links) ==
    IF first_primary(links) # 0 THEN links[first_primary(links)].name
    ELSE IF links # <<>> THEN links[1].name
    ELSE EmDash

\* Item.primary_character: the name of the Character it returns, or None
primary_character(db, pk) ==
    LET rows == character_rows(db, pk) IN
    IF first_primary(rows) # 0 THEN rows[first_primary(rows)].name
    ELSE IF rows # <<>> THEN rows[1].name
    ELSE None

\* the lists list(obj.character_links.all()) can give for an item
character_links(pk) == orders(rows_of(Committed, pk))

\* C23: whatever order the links of an item are loaded in, the admin shows
\* the name of a link marked primary when there is one, else the name of
\* the first link, else the em dash; Item.primary_character gives a marked link's
\* character when there is one, else the first row's, else None
C23_PrefersMarkedPrimary ==
    \A pk \in item :
        /\ \A links \in character_links(pk) :
               LET shown == primary_character_display(links) IN
               IF PrimaryNames(pk) # {} THEN shown \in PrimaryNames(pk)
               ELSE IF links # <<>> THEN shown = links[1].name
               ELSE shown = EmDash
        /\ LET shown == primary_character(Committed, pk) IN
           IF PrimaryNames(pk) # {} THEN shown \in PrimaryNames(pk)
           ELSE IF LinkedNames(pk) # {}
           THEN shown = character_rows(Committed, pk)[1].name
           ELSE shown = None

\* C23 witness: an item whose links can load with an unmarked link first
\* and the marked one after it, and the admin shows the marked one
C23_MarkedShownFromSecondPlace ==
    \E pk \in item : \E links \in character_links(pk) :
        /\ Len(links) >= 2
        /\ ~links[1].is_primary
        /\ links[2].is_primary
        /\ primary_character_display(links) = links[2].name

(***************************************************************************)
(* The collection admin's item overview: _collection_item_rows and         *)
(* render_collection_items of tracker/admin.py.  A purchase is its item    *)
(* (the item's pk, NoItem for a purchase without one) and its quantity     *)
(***************************************************************************)

\* the purchases of a collection in the model
MaxPurchases == 3

\* purchase.item is None
NoItem == 0

\* purchase.quantity is None
NoQuantity == -1

PurchasedItems == {NoItem, 1, 2}

Quantities == {NoQuantity, 0, 1, 2}

Purchases == [item : PurchasedItems, quantity : Quantities]

Collections ==
    UNION {[1..n -> Purchases] : n \in 0..MaxPurchases}

\* a count that takes a missing quantity as nothing bought
counted_or_zero(purchase) ==
    IF purchase.quantity \in {NoQuantity, 0} THEN 0 ELSE purchase.quantity

\* purchase.quantity if purchase.quantity not in (None, 0) else 1
counted(purchase) ==
    IF purchase.quantity \in {NoQuantity, 0} THEN 1 ELSE purchase.quantity

\* rows.setdefault(key, {"item": item, "quantity": 0}), then the addition:
\* rows is the OrderedDict as the list of its values
add_purchase(rows, purchase) ==
    IF \E i \in DOMAIN rows : rows[i].item = purchase.item
    THEN [i \in DOMAIN rows |->
             IF rows[i].item = purchase.item
             THEN [rows[i] EXCEPT !.quantity = @ + counted(purchase)]
             ELSE rows[i]]
    ELSE Append(rows, [item |-> purchase.item,
                       quantity |-> counted(purchase)])

\* the loop of _collection_item_rows over purchases[i..]
RECURSIVE item_rows_from(_, _, _)
item_rows_from(rows, purchases, i) ==
    IF i > Len(purchases) THEN rows
    ELSE IF purchases[i].item = NoItem
    THEN item_rows_from(rows, purchases, i + 1)
    ELSE item_rows_from(add_purchase(rows, purchases[i]), purchases, i + 1)

\* _collection_item_rows(collection)
collection_item_rows(purchases) == item_rows_from(<<>>, purchases, 1)

\* render_collection_items: the em dash, or for each row its item and the
\* quantity it prints ("qty n" only when n > 1, 0 for none)
render_collection_items(purchases) ==
    LET rows == collection_item_rows(purchases) IN
    IF rows = <<>> THEN EmDash
    ELSE [i \in DOMAIN rows |->
             [item |-> rows[i].item,
              qty  |-> IF rows[i].quantity > 1 THEN rows[i].quantity ELSE 0]]

\* the admin is about to show a collection
InitCollection ==
    /\ NoRequests
    /\ call \in {[fn |-> "collection", purchases |-> p, rows |-> <<>>,
                  rendered |-> <<>>] : p \in Collections}

call_collection_item_rows ==
    /\ call.fn = "collection"
    /\ call' = [call EXCEPT !.fn = "_collection_item_rows",
                            !.rows = collection_item_rows(call.purchases)]
    /\ UNCHANGED <<item, character, itemcharacter, last, txn, sess>>

call_render_collection_items ==
    /\ call.fn = "_collection_item_rows"
    /\ call' = [call EXCEPT
                   !.fn = "render_collection_items",
                   !.rendered = render_collection_items(call.purchases)]
    /\ UNCHANGED <<item, character, itemcharacter, last, txn, sess>>

NextCollection ==
    \/ call_collection_item_rows
    \/ call_render_collection_items

SpecCollection == InitCollection /\ [][NextCollection]_vars

\* the places of the purchases of an item in the collection
PurchasesOf(it) == {i \in DOMAIN call.purchases : call.purchases[i].item = it}

FirstPurchaseOf(it) ==
    CHOOSE i \in PurchasesOf(it) : \A j \in PurchasesOf(it) : i <= j

\* the sum over the places S of the quantity, None and 0 counting as 1
RECURSIVE QuantityOver(_)
QuantityOver(S) ==
    IF S = {} THEN 0
    ELSE LET i == CHOOSE j \in S : TRUE
             q == call.purchases[i].quantity
         IN  (IF q = NoQuantity \/ q = 0 THEN 1 ELSE q)
                 + QuantityOver(S \ {i})

RowsComputed == call.fn \in {"_collection_item_rows", "render_collection_items"}

\* C24: the rows are the distinct items of the purchases that have one, each
\* once, in the order the items first appear, with the summed quantity; a
\* collection without purchases renders as the em dash
C24_RowsAggregatePurchases ==
    /\ RowsComputed =>
           /\ {call.rows[i].item : i \in DOMAIN call.rows}
                  = {call.purchases[i].item : i \in DOMAIN call.purchases}
                        \ {NoItem}
           /\ \A i, j \in DOMAIN call.rows :
                  i < j => FirstPurchaseOf(call.rows[i].item)
                               < FirstPurchaseOf(call.rows[j].item)
           /\ \A i \in DOMAIN call.rows :
                  call.rows[i].quantity
                      = QuantityOver(PurchasesOf(call.rows[i].item))
    /\ call.fn = "render_collection_items" /\ call.purchases = <<>> =>
           call.rendered = EmDash

\* C24 witness: an item bought twice, once without a quantity, between the
\* purchases of another item, gives one row with the sum
C24_SummedRow ==
    /\ RowsComputed
    /\ Len(call.purchases) = 3
    /\ call.purchases[1] = [item |-> 2, quantity |-> 2]
    /\ call.purchases[2] = [item |-> 1, quantity |-> NoQuantity]
    /\ call.purchases[3] = [item |-> 2, quantity |-> 0]
    /\ call.rows = <<[item |-> 2, quantity |-> 3], [item |-> 1, quantity |-> 1]>>

\* the field has an entry whose name part is empty
HasNameless(c) == \E i \in DOMAIN EntriesOf(c) : i \notin Named(c)

\* the character rows the last request added
CreatedNames ==
    {character[i] : i \in (Len(character) - last.created + 1)..Len(character)}

\* C25: a sync of a field with an entry that has no name completes (unless a
\* name repeats), and after any sync the characters linked to the item and
\* the characters the sync created all carry the name part of an entry of
\* the field, never the text of a modifier
C25_NamelessTokensIgnored ==
    last.n > 0 =>
        /\ HasNameless(last.characters) /\ ~Repeats(last.characters) => last.ok
        /\ LinkedNames(last.item_id) \subseteq NamesOf(last.characters)
        /\ CreatedNames \subseteq NamesOf(last.characters)

\* C26: a request changes the links of its own item only: every other
\* item has the same links after the request as before it
C26_OtherItemsUntouched ==
    [][\A pk \in item :
           pk # last'.item_id =>
               links_of(itemcharacter', pk) = links_of(itemcharacter, pk)]_vars

\* C26 witness: a sync without a marked entry promoted a character on its
\* item while another item links the same character, unmarked
C26_SharedCharacterPromoted ==
    /\ last.n > 1
    /\ last.ok
    /\ MarkedEntries(last.characters) = {}
    /\ \E pk \in item \ {last.item_id} :
           \E name \in PrimaryNames(last.item_id) :
               <<name, FALSE>> \in LinkedPairs(pk)

\* the same field synced onto the same item from the committed state by the
\* two applications
BothSyncs(pk, c) ==
    [django  |-> django_sync_characters(Committed, pk, c),
     fastapi |-> fastapi_sync_characters(Committed, pk, c)]

\* C27: from every state the requests reach, for every item and every field
\* whose entries have pairwise distinct names, the FastAPI sync completes
\* and the two syncs leave the same (name, is_primary) pairs on the item and
\* the same character names
C27_SyncsAgree ==
    \A pk \in item : \A c \in Inputs :
        ~Repeats(c) =>
            \E both \in {BothSyncs(pk, c)} :
                /\ both.fastapi.s.pc = "done"
                /\ pairs_in(both.django, pk) = pairs_in(both.fastapi.db, pk)
                /\ Range(both.django.character)
                       = Range(both.fastapi.db.character)

(***************************************************************************)
(* The admin action deduplicate_items of tracker/admin.py.  The tables are *)
(* the items (pk and the tuple of the tracked fields, its signature), the  *)
(* itemcharacter and itemtag rows, whose key is the pair they link, and    *)
(* the purchases                                                           *)
(***************************************************************************)

\* the items, and the characters they can link
DedupeItems == 3

LinkableCharacters == {1, 2}

Signatures == {"a", "b"}

\* the character links one item can have, as (character, is_primary) pairs:
\* at most one per character and at most one primary
LinkShapes ==
    {S \in SUBSET (LinkableCharacters \X BOOLEAN) :
        /\ \A l, m \in S : l[1] = m[1] => l = m
        /\ Cardinality({l \in S : l[2]}) <= 1}

\* the tables before the action: every item has a purchase, and item 1 and
\* item 2 may carry tag 1
Catalogues ==
    {[items     |-> 1..DedupeItems,
      signature |-> sig,
      links     |-> UNION {{Link(pk, l[1], l[2]) : l \in shape[pk]} :
                              pk \in 1..DedupeItems},
      tags      |-> tg,
      purchases |-> [p \in 1..DedupeItems |-> p]] :
        sig \in [1..DedupeItems -> Signatures],
        shape \in [1..DedupeItems -> LinkShapes],
        tg \in SUBSET {[item_id |-> 1, tag_id |-> 1],
                       [item_id |-> 2, tag_id |-> 1]}}

\* the locals of the action: the tables inside the atomic block,
\* signature_map as the set of its (signature, keeper) pairs, removed, and
\* the exception that ended the loop
DedupeState(tables) ==
    [tables |-> tables, signature_map |-> {}, removed |-> 0, raised |-> ""]

\* signature_map.setdefault(signature, item)
setdefault(signature_map, signature, pk) ==
    IF \E e \in signature_map : e[1] = signature THEN signature_map
    ELSE signature_map \cup {<<signature, pk>>}

keeper_of(signature_map, signature) ==
    (CHOOSE e \in signature_map : e[1] = signature)[2]

\* UPDATE itemcharacter SET item_id = keeper WHERE item_id = item: the key
\* (item_id, character_id) refuses a row the keeper already has
characters_conflict(links, pk, keeper) ==
    \E l \in links_of(links, pk), k \in links_of(links, keeper) :
        l.character_id = k.character_id

tags_conflict(tags, pk, keeper) ==
    \E l \in tags, k \in tags :
        l.item_id = pk /\ k.item_id = keeper /\ l.tag_id = k.tag_id

\* one pass of the loop over the queryset
dedupe_item(st, pk) ==
    LET signature == st.tables.signature[pk]
        map       == setdefault(st.signature_map, signature, pk)
        keeper    == keeper_of(map, signature)
        t         == st.tables
    IN  IF st.raised # "" THEN st
        ELSE IF keeper = pk THEN [st EXCEPT !.signature_map = map]
        ELSE IF characters_conflict(t.links, pk, keeper)
                    \/ tags_conflict(t.tags, pk, keeper)
        THEN [st EXCEPT !.signature_map = map, !.raised = "IntegrityError"]
        ELSE [signature_map |-> map,
              removed |-> st.removed + 1,
              raised |-> "",
              tables |->
                  [items     |-> t.items \ {pk},
                   signature |-> t.signature,
                   links     |-> {IF l.item_id = pk
                                  THEN [l EXCEPT !.item_id = keeper]
                                  ELSE l : l \in t.links},
                   tags      |-> {IF l.item_id = pk
                                  THEN [l EXCEPT !.item_id = keeper]
                                  ELSE l : l \in t.tags},
                   purchases |-> [p \in DOMAIN t.purchases |->
                                     IF t.purchases[p] = pk THEN keeper
                                     ELSE t.purchases[p]]]]

\* for item in queryset.order_by("pk"), from pk on
RECURSIVE dedupe_from(_, _, _)
dedupe_from(st, queryset, pk) ==
    IF pk > DedupeItems THEN st
    ELSE IF pk \in queryset
    THEN dedupe_from(dedupe_item(st, pk), queryset, pk + 1)
    ELSE dedupe_from(st, queryset, pk + 1)

InitDedupe ==
    /\ NoRequests
    /\ call \in {[fn |-> "changelist", tables |-> t, queryset |-> {},
                  raised |-> "", removed |-> 0] : t \in Catalogues}

\* the action on the selected items: the atomic block commits, or the
\* exception rolls it back
deduplicate_items(queryset) ==
    /\ call.fn = "changelist"
    /\ \E st \in {dedupe_from(DedupeState(call.tables), queryset, 1)} :
           call' = [fn       |-> "deduplicate_items",
                    tables   |-> IF st.raised = "" THEN st.tables
                                 ELSE call.tables,
                    queryset |-> queryset,
                    raised   |-> st.raised,
                    removed  |-> IF st.raised = "" THEN st.removed ELSE 0]
    /\ UNCHANGED <<item, character, itemcharacter, last, txn, sess>>

NextDedupe ==
    \E queryset \in SUBSET (1..DedupeItems) : deduplicate_items(queryset)

SpecDedupe == InitDedupe /\ [][NextDedupe]_vars

\* C28: the action completes, and afterwards every item that is left has at
\* most one primary link and at most one link per character
C28_DedupeKeepsLinkInvariants ==
    call.fn = "deduplicate_items" =>
        /\ call.raised = ""
        /\ \A pk \in call.tables.items :
               /\ Cardinality({l \in links_of(call.tables.links, pk) :
                                  l.is_primary}) <= 1
               /\ \A l, m \in links_of(call.tables.links, pk) :
                      l.character_id = m.character_id => l = m

(***************************************************************************)
(* main() of the CSV importer, statement by statement: the arguments, the  *)
(* check of the database target, init_db(), then one commit per sheet row  *)
(***************************************************************************)

\* the rows of the sheet
MaxRows == 2

\* the resolved DB_URL of the run
ImportUrls == {DEFAULT_SQLITE_URL, MemoryUrl, OtherSqliteUrl}

\* an importer that creates the tables first and checks the target after
main_init_db_first(pc) ==
    IF pc = "args" THEN "init_db"
    ELSE IF pc = "init_db" THEN "ensure_database_target"
    ELSE IF pc = "ensure_database_target" THEN "rows"
    ELSE "exit"

\* the statement main() goes to after the statement at pc
main_after(pc) ==
    IF pc = "args" THEN "ensure_database_target"
    ELSE IF pc = "ensure_database_target" THEN "init_db"
    ELSE IF pc = "init_db" THEN "rows"
    ELSE "exit"

\* the importer is started: tables tells whether create_all ran, written
\* counts the sheet rows whose Item, Character, link and Purchase rows were
\* committed
InitImport ==
    /\ NoRequests
    /\ call \in {[fn |-> "import_csv", pc |-> "args", DB_URL |-> url,
                  allow_sqlite |-> allow, csv_exists |-> exists,
                  csv_rows |-> rows, checked |-> FALSE, tables |-> FALSE,
                  written |-> 0, raised |-> ""] :
                     url \in ImportUrls, allow \in BOOLEAN,
                     exists \in BOOLEAN, rows \in 0..MaxRows}

ImportStep(c) ==
    /\ call.fn = "import_csv"
    /\ call' = c
    /\ UNCHANGED <<item, character, itemcharacter, last, txn, sess>>

\* parser.parse_args(), `if not csv_path.exists(): raise SystemExit`, and the
\* reading of the --map file
main_args ==
    /\ call.pc = "args"
    /\ ImportStep(IF call.csv_exists
                  THEN [call EXCEPT !.pc = main_after("args")]
                  ELSE [call EXCEPT !.pc = "exit", !.raised = "SystemExit"])

\* ensure_database_target(DB_URL, args.allow_sqlite)
main_ensure_database_target ==
    /\ call.pc = "ensure_database_target"
    /\ \E exc \in {ensure_database_target(call.DB_URL, call.allow_sqlite)} :
           ImportStep(IF exc = ""
                      THEN [call EXCEPT !.checked = TRUE,
                                        !.pc = main_after(call.pc)]
                      ELSE [call EXCEPT !.pc = "exit", !.raised = exc])

\* init_db(): SQLModel.metadata.create_all(engine)
main_init_db ==
    /\ call.pc = "init_db"
    /\ ImportStep([call EXCEPT !.tables = TRUE, !.pc = main_after(call.pc)])

\* one pass of `for row in reader`, with its commits
main_import_row ==
    /\ call.pc = "rows"
    /\ call.written < call.csv_rows
    /\ ImportStep([call EXCEPT !.written = @ + 1])

\* the reader is exhausted: main returns
main_return ==
    /\ call.pc = "rows"
    /\ call.written = call.csv_rows
    /\ ImportStep([call EXCEPT !.pc = main_after(call.pc)])

NextImport ==
    \/ main_args
    \/ main_ensure_database_target
    \/ main_init_db
    \/ main_import_row
    \/ main_return

SpecImport == InitImport /\ [][NextImport]_vars

\* the target is the default SQLite file and --allow-sqlite was not given
RefusedTarget == ~call.allow_sqlite /\ call.DB_URL = DEFAULT_SQLITE_URL

\* C29: tables are created and rows written only after the target check has
\* passed; a run whose target is refused creates no table and writes no row
C29_CheckBeforeEffects ==
    /\ call.tables \/ call.written > 0 => call.checked
    /\ RefusedTarget => ~call.tables /\ call.written = 0

\* C29 witness: a run on the default SQLite file without --allow-sqlite has
\* ended with SystemExit from the check and nothing was created
C29_RefusedBeforeEffects ==
    /\ RefusedTarget
    /\ call.csv_exists
    /\ call.csv_rows > 0
    /\ call.pc = "exit"
    /\ call.raised = "SystemExit"
    /\ ~call.tables
    /\ call.written = 0

(***************************************************************************)
(* The schema helpers of tracker/schema.py.  The legacy purchase table is  *)
(* the set of the column names the backend reports, and whether the        *)
(* introspection of it succeeds; the process holds the lru_cache of        *)
(* table_column_names, a function from the table names asked about so far  *)
(* to the frozenset answered                                               *)
(***************************************************************************)

\* Purchase._meta.db_table
_purchase_table_name == "purchase"

id_column == <<"i", "d">>

order_date == <<"o", "r", "d", "e", "r", "_", "d", "a", "t", "e">>

ship_date == <<"s", "h", "i", "p", "_", "d", "a", "t", "e">>

\* a backend that reports the column in upper case
ORDER_DATE == <<"O", "R", "D", "E", "R", "_", "D", "A", "T", "E">>

\* the column names a legacy purchase table may report
ColumnNames == {id_column, order_date, ORDER_DATE, ship_date}

PurchaseTables == [columns : SUBSET ColumnNames, readable : BOOLEAN]

\* the lru_cache of a starting process: no table has been asked about
EmptyCache == [t \in {} |-> {}]

\* the body of table_column_names: frozenset() when get_table_description
\* raises a database error, otherwise the lower-cased names that are not empty
introspect(table) ==
    IF ~table.readable
    THEN {}
    ELSE {lower(name) : name \in {n \in table.columns : n # <<>>}}

\* @lru_cache(maxsize=None): the answer of the first call for table_name is
\* kept, whatever the body returned, and later calls are answered from it
cache_put(cache, table_name, table) ==
    IF table_name \in DOMAIN cache
    THEN cache
    ELSE [t \in DOMAIN cache \cup {table_name} |->
             IF t = table_name THEN introspect(table) ELSE cache[t]]

table_column_names(cache, table_name, table) ==
    cache_put(cache, table_name, table)[table_name]

\* column_name.lower() in table_column_names(table_name)
table_has_column(cache, table_name, column_name, table) ==
    lower(column_name) \in table_column_names(cache, table_name, table)

purchase_has_column(cache, column_name, table) ==
    table_has_column(cache, _purchase_table_name, column_name, table)

InitSchema ==
    /\ NoRequests
    /\ call \in {[fn |-> "schema", table |-> t, cache |-> EmptyCache,
                  names |-> {}, has |-> FALSE] : t \in PurchaseTables}

SchemaStep(c) ==
    /\ call.fn \in {"schema", "table_column_names", "purchase_has_order_date",
                    "purchase_has_ship_date", "clear_purchase_cache",
                    "add_purchase_date_columns", "get_table_description"}
    /\ call' = c
    /\ UNCHANGED <<item, character, itemcharacter, last, txn, sess>>

\* purchase_column_names(): table_column_names(_purchase_table_name())
call_table_column_names ==
    SchemaStep([call EXCEPT
        !.fn = "table_column_names",
        !.names = table_column_names(call.cache, _purchase_table_name,
                                     call.table),
        !.cache = cache_put(call.cache, _purchase_table_name, call.table)])

call_purchase_has_order_date ==
    SchemaStep([call EXCEPT
        !.fn = "purchase_has_order_date",
        !.has = purchase_has_column(call.cache, order_date, call.table),
        !.cache = cache_put(call.cache, _purchase_table_name, call.table)])

call_purchase_has_ship_date ==
    SchemaStep([call EXCEPT
        !.fn = "purchase_has_ship_date",
        !.has = purchase_has_column(call.cache, ship_date, call.table),
        !.cache = cache_put(call.cache, _purchase_table_name, call.table)])

\* table_column_names.cache_clear()
clear_purchase_cache ==
    SchemaStep([call EXCEPT !.fn = "clear_purchase_cache",
                            !.cache = EmptyCache])

\* migration 0003: nothing when the table cannot be read, otherwise
\* ALTER TABLE purchase ADD COLUMN for each of the two columns that the
\* lower-cased existing names lack
add_purchase_date_columns ==
    SchemaStep([call EXCEPT
        !.fn = "add_purchase_date_columns",
        !.table.columns =
            IF ~call.table.readable
            THEN @
            ELSE @ \cup {c \in {order_date, ship_date} :
                            c \notin {lower(n) : n \in call.table.columns}}])

\* the database starts or stops answering get_table_description for the table
get_table_description(readable) ==
    /\ readable # call.table.readable
    /\ SchemaStep([call EXCEPT !.fn = "get_table_description",
                               !.table.readable = readable])

NextSchema ==
    \/ call_table_column_names
    \/ call_purchase_has_order_date
    \/ call_purchase_has_ship_date
    \/ clear_purchase_cache
    \/ add_purchase_date_columns
    \/ \E readable \in BOOLEAN : get_table_description(readable)

SpecSchema == InitSchema /\ [][NextSchema]_vars

\* what the purchase table exposes now: nothing when introspection raises
CurrentColumns == introspect(call.table)

\* C30: every call reports the table's current columns (the empty set, or
\* False, while introspection raises), whether or not clear_purchase_cache
\* was called since the table changed
C30_NeverStale ==
    /\ call.fn = "table_column_names" => call.names = CurrentColumns
    /\ call.fn = "purchase_has_order_date" =>
           call.has = (order_date \in CurrentColumns)
    /\ call.fn = "purchase_has_ship_date" =>
           call.has = (ship_date \in CurrentColumns)

====
